---- MODULE Spec2Model ----
(***************************************************************************)
(* A model of the HTS synthesis engine: pattern matching and decision-tree *)
(* lookup (model/stream.rs), parameter mixing, the Condition record        *)
(* (engine.rs) and the frame loop that fills the speech buffer             *)
(* (speech.rs, gstream.rs).                                                *)
(*                                                                         *)
(* Strings are sequences of one-character strings.                         *)
(***************************************************************************)
EXTENDS Integers, Sequences, FiniteSets, TLC

VARIABLES
    pat_pc,        \* position of the pattern-matching process
    pat_pattern,   \* the pattern string handed to from_pattern_string
    pat_label,     \* the label handed to is_match
    pat_compiled,  \* the Pattern value built by from_pattern_string
    pat_result     \* what is_match returned

VARIABLES
    lk_pc,         \* position of the lookup: start, walk, walked, done
    lk_model,      \* the Model: trees and the lengths of its PDF tables
    lk_state,      \* state_index handed to get_parameter
    lk_label,      \* the label string handed to get_parameter
    lk_tree_index, \* Option: what find_tree_index returned
    lk_tree,       \* the position of the tree search_node walks
    lk_node_index, \* search_node's node_index
    lk_pdf_index,  \* Option: what search_node returned
    lk_result,     \* what get_parameter did: a PDF reference or a panic
    lk_visited     \* history: the nodes the walk has left behind

VARIABLES
    mx_pc,         \* position of the mixing loop: mix, done
    mx_params,     \* per voice, the ModelParameter get_parameter returned
    mx_w1,         \* a weight per voice
    mx_w2,         \* a second weight per voice
    mx_v,          \* the next voice to add
    mx_a1,         \* the accumulator mixed with weights w1
    mx_a2,         \* the accumulator mixed with weights w2
    mx_a12         \* the accumulator mixed with weights w1 + w2

VARIABLES
    cd_pc,         \* the Condition's life: new, loaded, failed, aborted
    cd_cond,       \* the Condition record
    cd_voices,     \* the VoiceSet's metadata read by load_model
    cd_ret,        \* what load_model returned
    cd_last,       \* the last setter call and its arguments
    cd_calls       \* how many setter calls were made

VARIABLES
    sy_pc,         \* synthesis: off, start, frames, done, panic
    sy_driver,     \* "speech" (SpeechGenerator) or "gstream" (GStreamSet)
    sy_total_frame,\* number of frames of the generated parameters
    sy_lf0_len,    \* length of the lf0 static vector
    sy_lpf_len,    \* length of the low-pass filter vector, if there is one
    sy_fperiod,    \* the driver's frame period
    sy_v_fperiod,  \* the Vocoder's frame period
    sy_speech,     \* the speech buffer: 0, or 1 + the frame that wrote
    sy_i           \* the frame loop's counter

VARIABLES
    vc_pc,         \* the Vocoder's caller: off, idle, samples
    vc_v,          \* the Vocoder
    vc_frames,     \* the frames the caller hands to synthesize, in order
    vc_t,          \* how many synthesize calls returned
    vc_k,          \* the sample loop's counter
    vc_frame,      \* locals of the running call: p, cc, cinc, the
                   \* coefficients cinc was computed from
    vc_rawdata,    \* the running call's output slice
    vc_log         \* the calls made on the excitation and the filter

VARIABLES
    en_pc,         \* the Engine: off, ready
    en_voices,     \* Engine::voices
    en_condition,  \* Engine::condition
    en_calls,      \* the generate_speech calls of the two callers
    en_history,    \* the calls that returned: condition, labels, samples
    en_dropped,    \* the Vocoder the last call to return dropped
    en_started     \* how many calls were started

VARIABLES
    tp_pc,      \* the tree parser: off, input, done
    tp_line,    \* the parts the input line was written from
    tp_input,   \* the input of parse_node
    tp_result   \* what parse_node returned

VARIABLES
    gs_pc,      \* GStreamSet::create: off, loop, done, panic
    gs_pss,     \* the PStreamSet it reads
    gs_i,       \* the frame of the loop
    gs_index,   \* frame_skipped_index
    gs_passed,  \* what Vocoder::synthesize was given, frame by frame
    gs_reads    \* the (stream, row) pairs read with pss.get_parameter

VARIABLES
    tr_pc, tr_input, tr_parsed, tr_tree

patVars == <<pat_pc, pat_pattern, pat_label, pat_compiled, pat_result>>
lkVars == <<lk_pc, lk_model, lk_state, lk_label, lk_tree_index, lk_tree,
            lk_node_index, lk_pdf_index, lk_result, lk_visited>>

mxVars == <<mx_pc, mx_params, mx_w1, mx_w2, mx_v, mx_a1, mx_a2, mx_a12>>

cdVars == <<cd_pc, cd_cond, cd_voices, cd_ret, cd_last, cd_calls>>

syVars == <<sy_pc, sy_driver, sy_total_frame, sy_lf0_len, sy_lpf_len,
            sy_fperiod, sy_v_fperiod, sy_speech, sy_i>>

vcVars == <<vc_pc, vc_v, vc_frames, vc_t, vc_k, vc_frame, vc_rawdata, vc_log>>

enVars == <<en_pc, en_voices, en_condition, en_calls, en_history, en_dropped,
            en_started>>

tpVars == <<tp_pc, tp_line, tp_input, tp_result>>

gsVars == <<gs_pc, gs_pss, gs_i, gs_index, gs_passed, gs_reads>>

trVars == <<tr_pc, tr_input, tr_parsed, tr_tree>>

vars == <<patVars, lkVars, mxVars, cdVars, syVars,
         vcVars,
         enVars,
         tpVars,
         gsVars,
         trVars>>

\* what the actions of one process leave alone
exceptPat == <<lkVars, mxVars, cdVars, syVars, vcVars, enVars, tpVars, gsVars, trVars>>
exceptLk == <<patVars, mxVars, cdVars, syVars, vcVars, enVars, tpVars, gsVars, trVars>>
exceptMx == <<patVars, lkVars, cdVars, syVars, vcVars, enVars, tpVars, gsVars, trVars>>
exceptCd == <<patVars, lkVars, mxVars, syVars, vcVars, enVars, tpVars, gsVars, trVars>>
exceptSy == <<patVars, lkVars, mxVars, cdVars, vcVars, enVars, tpVars, gsVars, trVars>>
exceptVc == <<patVars, lkVars, mxVars, cdVars, syVars, enVars, tpVars, gsVars, trVars>>
exceptEn == <<patVars, lkVars, mxVars, cdVars, syVars, vcVars, tpVars, gsVars, trVars>>
exceptTp == <<patVars, lkVars, mxVars, cdVars, syVars, vcVars, enVars, gsVars, trVars>>
exceptGs == <<patVars, lkVars, mxVars, cdVars, syVars, vcVars, enVars, tpVars, trVars>>
exceptTr == <<patVars, lkVars, mxVars, cdVars, syVars, vcVars, enVars, tpVars, gsVars>>

\* ------------------------------------------------------------------------
\* Bounds
\* ------------------------------------------------------------------------

MaxPatLen == 3
MaxLabelLen == 3
MaxNodes == 2
MaxTrees == 2
MaxPdf == 2
MaxVoices == 2
MaxSize == 1
SigBits == 3
MaxOptions == 2
MaxCalls == 2
MaxFrames == 3
MaxFperiod == 3
MaxVFrames == 2
MaxVPeriod == 2
MaxEngineCalls == 3
MaxGFrames == 3

\* ------------------------------------------------------------------------
\* Strings
\* ------------------------------------------------------------------------

SeqsUpTo(S, n) == UNION {[1..k -> S] : k \in 0..n}

\* s[a..b] as a (possibly empty) string
Slice(s, a, b) == [k \in 1..(IF b >= a THEN b - a + 1 ELSE 0) |-> s[a + k - 1]]

\* str::starts_with(char) / str::ends_with(char)
StartsWith(s, c) == Len(s) >= 1 /\ s[1] = c
EndsWith(s, c) == Len(s) >= 1 /\ s[Len(s)] = c

\* str::contains([chars]) : some character of s is in cs
ContainsAnyChar(s, cs) == \E k \in 1..Len(s) : s[k] \in cs

\* str::contains(&str) : needle occurs as a contiguous substring
ContainsStr(s, needle) ==
    \E k \in 0..(Len(s) - Len(needle)) :
        \A m \in 1..Len(needle) : s[k + m] = needle[m]

\* str::replace(char, &str)
RECURSIVE Replace(_, _, _)
Replace(s, c, rep) ==
    IF s = <<>> THEN <<>>
    ELSE (IF Head(s) = c THEN rep ELSE <<Head(s)>>) \o Replace(Tail(s), c, rep)

\* ------------------------------------------------------------------------
\* Regex (the part of the regex crate's syntax the patterns can produce:
\* ^ and $ anchors, escaped characters, `.`, literals, and `*` after an atom)
\* ------------------------------------------------------------------------

\* Regex::new: the source text to a list of atoms, each [any, ch, star]
RECURSIVE RegexAtoms(_, _)
RegexAtoms(src, k) ==
    IF k > Len(src) THEN <<>>
    ELSE LET esc == src[k] = "\\"
             w == IF esc THEN 2 ELSE 1
             atom == [any |-> (~esc /\ src[k] = "."),
                      ch |-> IF esc THEN src[k + 1] ELSE src[k],
                      star |-> (k + w <= Len(src) /\ src[k + w] = "*")]
         IN <<atom>> \o RegexAtoms(src, k + w + (IF atom.star THEN 1 ELSE 0))

\* does atoms[i..] match text[j..] up to the end of the text
RECURSIVE AtomsMatch(_, _, _, _)
AtomsMatch(atoms, i, text, j) ==
    IF i > Len(atoms) THEN j > Len(text)
    ELSE LET a == atoms[i]
             one == j <= Len(text) /\ (a.any \/ text[j] = a.ch)
         IN IF a.star
            THEN AtomsMatch(atoms, i + 1, text, j)
                 \/ (one /\ AtomsMatch(atoms, i, text, j + 1))
            ELSE one /\ AtomsMatch(atoms, i + 1, text, j + 1)

\* Regex::is_match for a source "^...$": the body must match the whole text
RegexIsMatch(src, text) ==
    AtomsMatch(RegexAtoms(Slice(src, 2, Len(src) - 1), 1), 1, text, 1)

\* ------------------------------------------------------------------------
\* Pattern (model/stream.rs)
\* ------------------------------------------------------------------------

PatternAll == [kind |-> "All", s |-> <<>>]
PatternContains(s) == [kind |-> "Contains", s |-> s]
PatternRegex(src) == [kind |-> "Regex", s |-> src]

\* the regex source built by the replace chain
RegexSource(pattern) ==
    <<"^">>
    \o Replace(Replace(Replace(Replace(Replace(pattern,
           "+", <<"\\", "+">>),
           "^", <<"\\", "^">>),
           "|", <<"\\", "|">>),
           "*", <<".", "*">>),
           "?", <<".">>)
    \o <<"$">>

from_pattern_string(pattern) ==
    IF pattern = <<"*">> THEN PatternAll
    ELSE IF /\ StartsWith(pattern, "*")
            /\ EndsWith(pattern, "*")
            /\ ~ContainsAnyChar(Slice(pattern, 2, Len(pattern) - 1), {"*", "?"})
         THEN PatternContains(Slice(pattern, 2, Len(pattern) - 1))
         ELSE PatternRegex(RegexSource(pattern))

is_match(p, label) ==
    CASE p.kind = "All" -> TRUE
      [] p.kind = "Contains" -> ContainsStr(label, p.s)
      [] p.kind = "Regex" -> RegexIsMatch(p.s, label)

\* ------------------------------------------------------------------------
\* Tree and Model (model/stream.rs)
\* ------------------------------------------------------------------------

None == [some |-> FALSE, v |-> 0]
Some(x) == [some |-> TRUE, v |-> x]

\* Vec indexing from 0
Nth(s, i) == s[i + 1]

Leaf(pdf_index) ==
    [leaf |-> TRUE, pdf_index |-> pdf_index, patterns |-> <<>>, yes |-> 0, no |-> 0]
Node(patterns, yes, no) ==
    [leaf |-> FALSE, pdf_index |-> 0, patterns |-> patterns, yes |-> yes, no |-> no]

\* patterns.iter().any(|p| p.is_match(string))
AnyMatch(patterns, string) ==
    \E k \in 1..Len(patterns) : is_match(patterns[k], string)

matches_pattern(tree, string) == AnyMatch(tree.patterns, string)

\* one turn of search_node's loop at a branch node: the next node_index
SearchNextSwapped(node, string) ==
    IF AnyMatch(node.patterns, string) THEN node.no ELSE node.yes

SearchNext(node, string) ==
    IF AnyMatch(node.patterns, string) THEN node.yes ELSE node.no

\* the position of the first tree with this state whose patterns match
find_tree_index(model, state_index, string) ==
    LET hits == {k \in 0..(Len(model.trees) - 1) :
                    /\ Nth(model.trees, k).state = state_index
                    /\ matches_pattern(Nth(model.trees, k), string)}
    IN IF hits = {} THEN None
       ELSE Some(CHOOSE k \in hits : \A m \in hits : k <= m)

Panic(why) == [kind |-> "panic", why |-> why, table |-> 0, row |-> 0]
PdfRef(table, row) == [kind |-> "ok", why |-> "", table |-> table, row |-> row]
NoResult == [kind |-> "none", why |-> "", table |-> 0, row |-> 0]

\* get_parameter once get_index has returned (tree_index + 2, pdf_index):
\* the let-else, then &self.pdf[tree_index - 2][pdf_index - 1]
get_parameter(model, tree_index, pdf_index) ==
    IF ~tree_index.some \/ ~pdf_index.some
    THEN Panic("not yet implemented: index not found!")
    ELSE LET ti == tree_index.v + 2
         IN IF pdf_index.v = 0
            THEN Panic("attempt to subtract with overflow")
            ELSE IF ti - 2 >= Len(model.pdf)
                    \/ pdf_index.v - 1 >= Nth(model.pdf, ti - 2)
                 THEN Panic("index out of bounds")
                 ELSE PdfRef(ti - 2, pdf_index.v - 1)

\* ------------------------------------------------------------------------
\* f64 arithmetic: round-to-nearest, ties-to-even, with a significand of
\* SigBits bits in place of 53 and no exponent limits.  A number is an
\* integer count of a power-of-two unit.
\* ------------------------------------------------------------------------

RECURSIVE Pow2(_)
Pow2(n) == IF n = 0 THEN 1 ELSE 2 * Pow2(n - 1)

\* how many low bits of n >= 0 do not fit the significand
RECURSIVE ExcessBits(_)
ExcessBits(n) == IF n < Pow2(SigBits) THEN 0 ELSE 1 + ExcessBits(n \div 2)

RoundNat(n) ==
    LET e == ExcessBits(n)
        q == n \div Pow2(e)
        r == n % Pow2(e)
        up == e > 0 /\ (2 * r > Pow2(e) \/ (2 * r = Pow2(e) /\ q % 2 = 1))
    IN (IF up THEN q + 1 ELSE q) * Pow2(e)

Fl(x) == IF x < 0 THEN 0 - RoundNat(0 - x) ELSE RoundNat(x)

FMul(a, b) == Fl(a * b)
FAdd(a, b) == Fl(a + b)

\* ------------------------------------------------------------------------
\* ModelParameter (model/stream.rs, model/voice/model.rs)
\* ------------------------------------------------------------------------

\* ModelParameter::new
ModelParameter_new(size, is_msd) ==
    [parameters |-> [i \in 1..size |-> <<0, 0>>],
     msd |-> IF is_msd THEN Some(0) ELSE None]

add_assign_unweighted(self, weight, rhs) ==
    [parameters |->
        [i \in 1..Len(self.parameters) |->
            IF i <= Len(rhs.parameters)
            THEN <<FAdd(self.parameters[i][1], rhs.parameters[i][1]),
                   FAdd(self.parameters[i][2], rhs.parameters[i][2])>>
            ELSE self.parameters[i]],
     msd |-> IF self.msd.some /\ rhs.msd.some
             THEN Some(FAdd(self.msd.v, rhs.msd.v))
             ELSE self.msd]

\* ModelParameter::add_assign, for rhs no longer than self
add_assign(self, weight, rhs) ==
    [parameters |->
        [i \in 1..Len(self.parameters) |->
            IF i <= Len(rhs.parameters)
            THEN <<FAdd(self.parameters[i][1], FMul(weight, rhs.parameters[i][1])),
                   FAdd(self.parameters[i][2], FMul(weight, rhs.parameters[i][2]))>>
            ELSE self.parameters[i]],
     msd |-> IF self.msd.some /\ rhs.msd.some
             THEN Some(FAdd(self.msd.v, FMul(weight, rhs.msd.v)))
             ELSE self.msd]

\* ------------------------------------------------------------------------
\* Condition (engine.rs).  An f64 here is NaN or a count of units of 1e-7;
\* the volume and the interpolation weights are left out.
\* ------------------------------------------------------------------------

NaN == [nan |-> TRUE, v |-> 0]
F(x) == [nan |-> FALSE, v |-> x]

\* 1.0 and 1.0E-06 in units of 1e-7
One == 10000000
SpeedMin == 10

\* f64::max: a NaN operand is ignored
f64_max(a, b) ==
    IF a.nan THEN b
    ELSE IF b.nan THEN a
    ELSE IF a.v >= b.v THEN a ELSE b

\* f64::clamp: NaN stays NaN
f64_clamp(x, lo, hi) ==
    IF x.nan THEN x
    ELSE IF x.v < lo.v THEN lo
    ELSE IF x.v > hi.v THEN hi
    ELSE x

\* usize::max
usize_max(a, b) == IF a >= b THEN a ELSE b

\* impl Default for Condition
Condition_default ==
    [sampling_frequency |-> 0,
     fperiod |-> 0,
     msd_threshold |-> <<>>,
     gv_weight |-> <<>>,
     speed |-> F(One),
     phoneme_alignment_flag |-> FALSE,
     stage |-> 0,
     use_log_gain |-> FALSE,
     alpha |-> F(0),
     beta |-> F(0),
     additional_half_tone |-> F(0)]

Digits == {"0", "1", "2", "3", "4", "5", "6", "7", "8", "9"}

DigitValue(c) ==
    CASE c = "0" -> 0 [] c = "1" -> 1 [] c = "2" -> 2 [] c = "3" -> 3
      [] c = "4" -> 4 [] c = "5" -> 5 [] c = "6" -> 6 [] c = "7" -> 7
      [] c = "8" -> 8 [] c = "9" -> 9

AllDigits(s) == \A k \in 1..Len(s) : s[k] \in Digits

RECURSIVE Pow10(_)
Pow10(n) == IF n = 0 THEN 1 ELSE 10 * Pow10(n - 1)

\* the number a run of digits writes
RECURSIVE DigitsValue(_)
DigitsValue(s) ==
    IF s = <<>> THEN 0
    ELSE 10 * DigitsValue(SubSeq(s, 1, Len(s) - 1)) + DigitValue(s[Len(s)])

ParseErr == [ok |-> FALSE, v |-> 0]
ParseOk(x) == [ok |-> TRUE, v |-> x]

\* str::parse::<usize>: an optional `+`, then one digit or more (values
\* here stay far below usize::MAX)
ParseUsize(s) ==
    LET body == IF StartsWith(s, "+") THEN Tail(s) ELSE s
    IN IF body # <<>> /\ AllDigits(body)
       THEN ParseOk(DigitsValue(body))
       ELSE ParseErr

\* the position of the first `.` of s, 0 when it has none
FirstIndex(s, c) ==
    IF \E k \in 1..Len(s) : s[k] = c
    THEN CHOOSE k \in 1..Len(s) : s[k] = c /\ \A m \in 1..(k - 1) : s[m] # c
    ELSE 0

\* str::parse::<f64> on the texts the options hold: an optional sign, then
\* `nan` in any case or decimal digits with at most one `.` and a digit on
\* one side of it at least (no exponent, no `inf`); at most 7 decimals
ParseF64(s) ==
    LET signed == StartsWith(s, "+") \/ StartsWith(s, "-")
        neg == StartsWith(s, "-")
        body == IF signed THEN Tail(s) ELSE s
        dot == FirstIndex(body, ".")
        int == IF dot = 0 THEN body ELSE SubSeq(body, 1, dot - 1)
        frac == IF dot = 0 THEN <<>> ELSE SubSeq(body, dot + 1, Len(body))
        mag == DigitsValue(int) * One
               + DigitsValue(frac) * Pow10(7 - Len(frac))
    IN IF body \in {<<"N", "a", "N">>, <<"n", "a", "n">>, <<"N", "A", "N">>}
       THEN ParseOk(NaN)
       ELSE IF AllDigits(int) /\ AllDigits(frac) /\ Len(int) + Len(frac) >= 1
            THEN ParseOk(F(IF neg THEN 0 - mag ELSE mag))
            ELSE ParseErr

KeyGamma == <<"G", "A", "M", "M", "A">>
KeyLnGain == <<"L", "N", "_", "G", "A", "I", "N">>
KeyAlpha == <<"A", "L", "P", "H", "A">>

Ok == [ok |-> TRUE, key |-> <<>>]
ParseOptionError(key) == [ok |-> FALSE, key |-> key]

\* the body of load_model's loop for one option: the Condition after it and
\* the error it returns with, if any
apply_option_lenient(cond, option) ==
    LET eq == FirstIndex(option, "=")
        key == SubSeq(option, 1, eq - 1)
        value == SubSeq(option, eq + 1, Len(option))
    IN IF eq = 0 THEN [cond |-> cond, ret |-> Ok]
       ELSE CASE key = KeyGamma ->
                   IF ParseUsize(value).ok
                   THEN [cond |-> [cond EXCEPT !.stage = ParseUsize(value).v],
                         ret |-> Ok]
                   ELSE [cond |-> cond, ret |-> ParseOptionError(key)]
              [] key = KeyLnGain ->
                   [cond |-> [cond EXCEPT !.use_log_gain = (value = <<"1">>)],
                    ret |-> Ok]
              [] key = KeyAlpha ->
                   IF ParseF64(value).ok
                   THEN [cond |-> [cond EXCEPT !.alpha = ParseF64(value).v],
                         ret |-> Ok]
                   ELSE [cond |-> cond, ret |-> ParseOptionError(key)]
              [] OTHER -> [cond |-> cond, ret |-> Ok]

apply_option(cond, option) ==
    LET eq == FirstIndex(option, "=")
        key == SubSeq(option, 1, eq - 1)
        value == SubSeq(option, eq + 1, Len(option))
    IN IF eq = 0 THEN [cond |-> cond, ret |-> Ok]
       ELSE CASE key = KeyGamma ->
                   IF ParseUsize(value).ok
                   THEN [cond |-> [cond EXCEPT !.stage = ParseUsize(value).v],
                         ret |-> Ok]
                   ELSE [cond |-> cond, ret |-> ParseOptionError(key)]
              [] key = KeyLnGain ->
                   IF value = <<"1">>
                   THEN [cond |-> [cond EXCEPT !.use_log_gain = TRUE], ret |-> Ok]
                   ELSE IF value = <<"0">>
                        THEN [cond |-> [cond EXCEPT !.use_log_gain = FALSE],
                              ret |-> Ok]
                        ELSE [cond |-> cond, ret |-> ParseOptionError(key)]
              [] key = KeyAlpha ->
                   IF ParseF64(value).ok
                   THEN [cond |-> [cond EXCEPT !.alpha = ParseF64(value).v],
                         ret |-> Ok]
                   ELSE [cond |-> cond, ret |-> ParseOptionError(key)]
              [] OTHER -> [cond |-> cond, ret |-> Ok]

\* does the option split at `=` into one of the three keys
Recognized(option) ==
    LET eq == FirstIndex(option, "=")
    IN eq # 0 /\ SubSeq(option, 1, eq - 1) \in {KeyGamma, KeyLnGain, KeyAlpha}

\* the loop leaves at the first option it does not recognize
RECURSIVE apply_options_break(_, _, _)
apply_options_break(cond, options, k) ==
    IF k > Len(options) \/ ~Recognized(options[k]) THEN [cond |-> cond, ret |-> Ok]
    ELSE LET r == apply_option(cond, options[k])
         IN IF r.ret.ok THEN apply_options_break(r.cond, options, k + 1) ELSE r

\* `for option in &voices.stream_metadata(0).option`, from option k on
RECURSIVE apply_options(_, _, _)
apply_options(cond, options, k) ==
    IF k > Len(options) THEN [cond |-> cond, ret |-> Ok]
    ELSE LET r == apply_option(cond, options[k])
         IN IF r.ret.ok THEN apply_options(r.cond, options, k + 1) ELSE r

\* Condition::load_model: the Condition it leaves and what it returns
load_model(cond, voices) ==
    apply_options(
        [cond EXCEPT
            !.sampling_frequency = voices.sampling_frequency,
            !.fperiod = voices.frame_period,
            !.msd_threshold = [k \in 1..voices.num_streams |-> F(One \div 2)],
            !.gv_weight = [k \in 1..voices.num_streams |-> F(One)]],
        voices.option, 1)

\* ------------------------------------------------------------------------
\* The pattern process: compile one pattern, match one label
\* ------------------------------------------------------------------------

PatChars == {"a", ".", "*", "?", "+"}
LabelChars == {"a", "b", ".", "+"}

NoPattern == [kind |-> "None", s |-> <<>>]

LkIdle ==
    /\ lk_pc = "off"
    /\ lk_model = [trees |-> <<>>, pdf |-> <<>>]
    /\ lk_state = 0
    /\ lk_label = <<>>
    /\ lk_tree_index = None
    /\ lk_tree = 0
    /\ lk_node_index = 0
    /\ lk_pdf_index = None
    /\ lk_result = NoResult
    /\ lk_visited = {}

MxIdle ==
    /\ mx_pc = "off"
    /\ mx_params = <<>>
    /\ mx_w1 = <<>>
    /\ mx_w2 = <<>>
    /\ mx_v = 0
    /\ mx_a1 = ModelParameter_new(0, FALSE)
    /\ mx_a2 = ModelParameter_new(0, FALSE)
    /\ mx_a12 = ModelParameter_new(0, FALSE)

NoCall == [op |-> "none", idx |-> 0, n |-> 0, f |-> F(0), b |-> FALSE]
NoVoices == [num_streams |-> 0, sampling_frequency |-> 0, frame_period |-> 0,
             option |-> <<>>]

CdIdle ==
    /\ cd_pc = "off"
    /\ cd_cond = Condition_default
    /\ cd_voices = NoVoices
    /\ cd_ret = Ok
    /\ cd_last = NoCall
    /\ cd_calls = 0

SyIdle ==
    /\ sy_pc = "off"
    /\ sy_driver = "speech"
    /\ sy_total_frame = 0
    /\ sy_lf0_len = 1
    /\ sy_lpf_len = None
    /\ sy_fperiod = 0
    /\ sy_v_fperiod = 0
    /\ sy_speech = <<>>
    /\ sy_i = 0

VcIdle ==
    /\ vc_pc = "off"
    /\ vc_v = None
    /\ vc_frames = <<>>
    /\ vc_t = 0
    /\ vc_k = 0
    /\ vc_frame = None
    /\ vc_rawdata = <<>>
    /\ vc_log = <<>>

EnIdle ==
    /\ en_pc = "off"
    /\ en_voices = None
    /\ en_condition = None
    /\ en_calls = <<>>
    /\ en_history = <<>>
    /\ en_dropped = None
    /\ en_started = 0

TpIdle ==
    /\ tp_pc = "off"
    /\ tp_line = None
    /\ tp_input = <<>>
    /\ tp_result = None

GsIdle ==
    /\ gs_pc = "off"
    /\ gs_pss = None
    /\ gs_i = 0
    /\ gs_index = <<>>
    /\ gs_passed = <<>>
    /\ gs_reads = {}

TrIdle ==
    /\ tr_pc = "off"
    /\ tr_input = <<>>
    /\ tr_parsed = None
    /\ tr_tree = None

PatIdle ==
    /\ pat_pc = "off"
    /\ pat_pattern = <<>>
    /\ pat_label = <<>>
    /\ pat_compiled = NoPattern
    /\ pat_result = FALSE

\* every process but g is not running
AllIdleBut(g) ==
    /\ IF g = "pat" THEN TRUE ELSE PatIdle
    /\ IF g = "lk" THEN TRUE ELSE LkIdle
    /\ IF g = "mx" THEN TRUE ELSE MxIdle
    /\ IF g = "cd" THEN TRUE ELSE CdIdle
    /\ IF g = "sy" THEN TRUE ELSE SyIdle
    /\ IF g = "vc" THEN TRUE ELSE VcIdle
    /\ IF g = "en" THEN TRUE ELSE EnIdle
    /\ IF g = "tp" THEN TRUE ELSE TpIdle
    /\ IF g = "gs" THEN TRUE ELSE GsIdle
    /\ IF g = "tr" THEN TRUE ELSE TrIdle

InitPattern ==
    /\ pat_pc = "new"
    /\ pat_pattern \in SeqsUpTo(PatChars, MaxPatLen)
    /\ pat_label \in SeqsUpTo(LabelChars, MaxLabelLen)
    /\ pat_compiled = NoPattern
    /\ pat_result = FALSE
    /\ AllIdleBut("pat")

Compile ==
    /\ pat_pc = "new"
    /\ pat_compiled' = from_pattern_string(pat_pattern)
    /\ pat_pc' = "compiled"
    /\ UNCHANGED <<pat_pattern, pat_label, pat_result>>
    /\ UNCHANGED exceptPat

Match ==
    /\ pat_pc = "compiled"
    /\ pat_result' = is_match(pat_compiled, pat_label)
    /\ pat_pc' = "matched"
    /\ UNCHANGED <<pat_pattern, pat_label, pat_compiled>>
    /\ UNCHANGED exceptPat

NextPattern == Compile \/ Match

SpecPattern == InitPattern /\ [][NextPattern]_vars

\* ------------------------------------------------------------------------
\* C5: glob semantics
\* ------------------------------------------------------------------------

\* the case-sensitive full-string glob: `*` any run, `?` one character,
\* every other character itself
RECURSIVE GlobMatch(_, _, _, _)
GlobMatch(p, i, l, j) ==
    IF i > Len(p) THEN j > Len(l)
    ELSE IF p[i] = "*"
         THEN GlobMatch(p, i + 1, l, j)
              \/ (j <= Len(l) /\ GlobMatch(p, i, l, j + 1))
         ELSE /\ j <= Len(l)
              /\ (p[i] = "?" \/ p[i] = l[j])
              /\ GlobMatch(p, i + 1, l, j + 1)

\* C5: for every pattern and label, is_match of the compiled pattern equals
\* the full-string glob match of the pattern against the label.
C5_IsMatchIsGlob ==
    pat_pc = "matched" => pat_result = GlobMatch(pat_pattern, 1, pat_label, 1)

\* ------------------------------------------------------------------------
\* The lookup process: Model::get_parameter(state_index, string), with
\* search_node's loop taken one turn at a time
\* ------------------------------------------------------------------------

LookupLabels == {<<"a">>, <<"a", "b">>, <<"b">>}

BranchPatterns ==
    {<<from_pattern_string(<<"a", "*">>)>>,
     <<from_pattern_string(<<"b">>), from_pattern_string(<<"a", "?">>)>>}

GatePatterns ==
    {<<>>,
     <<from_pattern_string(<<"*">>)>>,
     <<from_pattern_string(<<"*", "b", "*">>)>>}

FirstState == 2
States == FirstState..(FirstState + 1)

\* the nodes a tree of n nodes may hold: yes and no are any position of the
\* list, or n, one past its end
NodesOf(n, pdfs) ==
    {Leaf(i) : i \in pdfs}
    \cup {Node(q, y, no) : q \in BranchPatterns, y \in 0..n, no \in 0..n}

NodeLists(pdfs) == UNION {[1..n -> NodesOf(n, pdfs)] : n \in 0..MaxNodes}

\* a single tree that serves every label of the state asked for
InitWalk ==
    /\ lk_pc = "start"
    /\ \E ns \in NodeLists(1..MaxPdf) :
          lk_model = [trees |-> <<[state |-> FirstState,
                                   patterns |-> <<PatternAll>>,
                                   nodes |-> ns]>>,
                      pdf |-> <<MaxPdf>>]
    /\ lk_state = FirstState
    /\ lk_label \in LookupLabels
    /\ lk_tree_index = None
    /\ lk_tree = 0
    /\ lk_node_index = 0
    /\ lk_pdf_index = None
    /\ lk_result = NoResult
    /\ lk_visited = {}
    /\ AllIdleBut("lk")

\* get_index up to the call of search_node, and search_node's first line
GetIndexBegin ==
    /\ lk_pc = "start"
    /\ lk_tree_index' = find_tree_index(lk_model, lk_state, lk_label)
    /\ IF ~lk_tree_index'.some /\ Len(lk_model.trees) = 0
       THEN /\ lk_result' = Panic("index out of bounds")
            /\ lk_pc' = "done"
            /\ UNCHANGED lk_tree
       ELSE /\ lk_tree' = IF lk_tree_index'.some THEN lk_tree_index'.v ELSE 0
            /\ lk_pc' = "walk"
            /\ UNCHANGED lk_result
    /\ lk_node_index' = 0
    /\ UNCHANGED <<lk_model, lk_state, lk_label, lk_pdf_index, lk_visited>>
    /\ UNCHANGED exceptLk

WalkedNodes == Nth(lk_model.trees, lk_tree).nodes

\* one turn of `while let Some(node) = self.nodes.get(node_index)`
SearchStep ==
    /\ lk_pc = "walk"
    /\ IF lk_node_index >= Len(WalkedNodes)
       THEN /\ lk_pdf_index' = None
            /\ lk_pc' = "walked"
            /\ UNCHANGED <<lk_node_index, lk_visited>>
       ELSE LET node == Nth(WalkedNodes, lk_node_index)
            IN IF node.leaf
               THEN /\ lk_pdf_index' = Some(node.pdf_index)
                    /\ lk_pc' = "walked"
                    /\ UNCHANGED <<lk_node_index, lk_visited>>
               ELSE /\ lk_node_index' = SearchNext(node, lk_label)
                    /\ lk_visited' = lk_visited \cup {lk_node_index}
                    /\ UNCHANGED <<lk_pdf_index, lk_pc>>
    /\ UNCHANGED <<lk_model, lk_state, lk_label, lk_tree_index, lk_tree, lk_result>>
    /\ UNCHANGED exceptLk

\* the rest of get_index and get_parameter
GetParameterEnd ==
    /\ lk_pc = "walked"
    /\ lk_result' = get_parameter(lk_model, lk_tree_index, lk_pdf_index)
    /\ lk_pc' = "done"
    /\ UNCHANGED <<lk_model, lk_state, lk_label, lk_tree_index, lk_tree,
                   lk_node_index, lk_pdf_index, lk_visited>>
    /\ UNCHANGED exceptLk

NextLookup == GetIndexBegin \/ SearchStep \/ GetParameterEnd

SpecWalk == InitWalk /\ [][NextLookup]_vars

\* the trees of a many-tree model: no node, a leaf alone, or a branch over
\* a leaf; a leaf may name PDF 0 or a PDF past the end of every table
LookupNodeLists ==
    {<<>>}
    \cup {<<Leaf(i)>> : i \in 0..(MaxPdf + 1)}
    \cup {<<Node(q, 1, 2), Leaf(i)>> : q \in BranchPatterns, i \in 0..(MaxPdf + 1)}

LookupTrees ==
    [state : States, patterns : GatePatterns, nodes : LookupNodeLists]

\* one table length per state, or fewer tables than states
PdfShapes == UNION {[1..k -> 1..MaxPdf] : k \in 1..MaxTrees}

InitLookup ==
    /\ lk_pc = "start"
    /\ \E ts \in SeqsUpTo(LookupTrees, MaxTrees), ps \in PdfShapes :
          lk_model = [trees |-> ts, pdf |-> ps]
    /\ lk_state \in States
    /\ lk_label \in LookupLabels
    /\ lk_tree_index = None
    /\ lk_tree = 0
    /\ lk_node_index = 0
    /\ lk_pdf_index = None
    /\ lk_result = NoResult
    /\ lk_visited = {}
    /\ AllIdleBut("lk")

SpecLookup == InitLookup /\ [][NextLookup]_vars

\* ------------------------------------------------------------------------
\* C1 - C4: the tree walk and the lookup
\* ------------------------------------------------------------------------

InTree(i) == i < Len(WalkedNodes)

\* the walk is at node 0 until it has left a node behind
C1_StartsAtRoot ==
    (lk_pc = "walk" /\ lk_visited = {}) => lk_node_index = 0

\* a turn at a branch node goes to yes when a pattern matches, else to no
C1_StepFollowsAnswer ==
    (lk_pc = "walk" /\ lk_pc' = "walk") =>
        LET node == Nth(WalkedNodes, lk_node_index)
            hit == \E k \in 1..Len(node.patterns) :
                       is_match(node.patterns[k], lk_label)
        IN /\ InTree(lk_node_index)
           /\ ~node.leaf
           /\ (hit => lk_node_index' = node.yes)
           /\ (~hit => lk_node_index' = node.no)

\* what is returned is the pdf index of the leaf the walk stands on, and no
\* node the walk left behind is a leaf
C1_ReturnsFirstLeaf ==
    (lk_pc \in {"walked", "done"} /\ lk_pdf_index.some) =>
        /\ InTree(lk_node_index)
        /\ Nth(WalkedNodes, lk_node_index).leaf
        /\ Nth(WalkedNodes, lk_node_index).pdf_index = lk_pdf_index.v
        /\ \A i \in lk_visited : InTree(i) /\ ~Nth(WalkedNodes, i).leaf

\* C1: search_node starts at node 0, at each branch node moves to yes when
\* at least one pattern of the node matches the label and to no otherwise,
\* and returns the pdf index of the first leaf it reaches.
C1_SearchNode ==
    /\ [](C1_StartsAtRoot /\ C1_ReturnsFirstLeaf)
    /\ [][C1_StepFollowsAnswer]_vars

\* a walk that went through a branch on a matching pattern and returned the
\* leaf it reached
C1_Witness ==
    /\ lk_pc = "done"
    /\ lk_pdf_index.some
    /\ lk_visited # {}
    /\ \E i \in lk_visited : AnyMatch(Nth(WalkedNodes, i).patterns, lk_label)

\* the pdf index a walk from node i reaches within `fuel` turns, if any
RECURSIVE LeafFrom(_, _, _, _)
LeafFrom(nodes, i, label, fuel) ==
    IF fuel = 0 \/ i >= Len(nodes) THEN None
    ELSE LET node == Nth(nodes, i)
         IN IF node.leaf THEN Some(node.pdf_index)
            ELSE LeafFrom(nodes,
                          IF \E k \in 1..Len(node.patterns) :
                                 is_match(node.patterns[k], label)
                          THEN node.yes ELSE node.no,
                          label, fuel - 1)

\* tree k has the state asked for and one of its gating patterns matches
Qualifies(k) ==
    LET tree == Nth(lk_model.trees, k)
    IN /\ tree.state = lk_state
       /\ \E m \in 1..Len(tree.patterns) : is_match(tree.patterns[m], lk_label)

\* the first qualifying tree in list order, tree 0 when none qualifies
ServingTree ==
    LET q == {k \in 0..(Len(lk_model.trees) - 1) : Qualifies(k)}
    IN IF q = {} THEN 0 ELSE CHOOSE k \in q : \A m \in q : k <= m

\* every table the lookup may read exists and holds PDF number i
PdfEverywhere(i) ==
    /\ Len(lk_model.pdf) >= Len(lk_model.trees)
    /\ \A t \in 1..Len(lk_model.pdf) : 1 <= i /\ i <= lk_model.pdf[t]

\* C2: get_parameter returns the PDF reached by walking the first tree in
\* list order whose state equals j and whose gating patterns match L; when
\* no tree qualifies it walks tree 0 and returns the PDF tree 0 reaches.
C2_GetParameter ==
    (lk_pc = "done" /\ Len(lk_model.trees) >= 1) =>
        LET nodes == Nth(lk_model.trees, ServingTree).nodes
            reached == LeafFrom(nodes, 0, lk_label, Len(nodes) + 1)
        IN (reached.some /\ PdfEverywhere(reached.v)) =>
               /\ lk_result.kind = "ok"
               /\ lk_result.row = reached.v - 1

\* C3: the walk stops after finitely many turns, and a cycle among branch
\* nodes is reported instead of being walked forever.  The walk is
\* deterministic, so once it stands again on a node it already left it
\* repeats the same turns without end: a walk that stops is never, while
\* still walking, on a node it has left behind.
C3_WalkStops ==
    ~(lk_pc = "walk" /\ lk_node_index \in lk_visited)

\* C4: the pdf index the walk finds lies inside the PDF table that
\* get_parameter reads; a leaf whose index is outside it (index 0 under the
\* read `pdf_index - 1` included) or a walk that finds no leaf is handed to
\* the caller as a ModelError, and the program never aborts.
C4_NoAbort ==
    (lk_pc = "done" /\ lk_tree_index.some) => lk_result.kind # "panic"

\* ------------------------------------------------------------------------
\* The mixing loop: accum = ModelParameter::new(size, is_msd), then
\* accum.add_assign(weight[v], param[v]) for each voice in turn; run for
\* the weights w1, for w2 and for w1 + w2 side by side
\* ------------------------------------------------------------------------

Seeds == {0, 1, 5}
Weights == {0, 1, 3}

\* the PDF of one voice: size (mean, variance) pairs and maybe an msd
VoicePdf(x, size, has_msd) ==
    [parameters |-> [i \in 1..size |-> <<x + i - 1, 2 * x>>],
     msd |-> IF has_msd THEN Some(x + 1) ELSE None]

InitMix ==
    /\ mx_pc = "mix"
    /\ \E n \in 1..MaxVoices, size \in 0..MaxSize, has_msd \in BOOLEAN :
          /\ \E xs \in [1..n -> Seeds] :
                mx_params = [v \in 1..n |-> VoicePdf(xs[v], size, has_msd)]
          /\ mx_w1 \in [1..n -> Weights]
          /\ mx_w2 \in [1..n -> Weights]
          /\ \E is_msd \in BOOLEAN :
                /\ mx_a1 = ModelParameter_new(size, is_msd)
                /\ mx_a2 = ModelParameter_new(size, is_msd)
                /\ mx_a12 = ModelParameter_new(size, is_msd)
    /\ mx_v = 0
    /\ AllIdleBut("mx")

\* one turn of the loop over the voices
AddVoice ==
    /\ mx_pc = "mix"
    /\ LET rhs == Nth(mx_params, mx_v)
       IN /\ mx_a1' = add_assign(mx_a1, Nth(mx_w1, mx_v), rhs)
          /\ mx_a2' = add_assign(mx_a2, Nth(mx_w2, mx_v), rhs)
          /\ mx_a12' = add_assign(mx_a12, FAdd(Nth(mx_w1, mx_v), Nth(mx_w2, mx_v)), rhs)
    /\ mx_v' = mx_v + 1
    /\ mx_pc' = IF mx_v + 1 = Len(mx_params) THEN "done" ELSE "mix"
    /\ UNCHANGED <<mx_params, mx_w1, mx_w2>>
    /\ UNCHANGED exceptMx

NextMix == AddVoice

SpecMix == InitMix /\ [][NextMix]_vars

\* ------------------------------------------------------------------------
\* C6: mixing
\* ------------------------------------------------------------------------

\* the scalars of a ModelParameter: "m"/"v" with a position, or the msd
Components(a) ==
    {<<"m", i>> : i \in 1..Len(a.parameters)}
    \cup {<<"v", i>> : i \in 1..Len(a.parameters)}
    \cup (IF a.msd.some THEN {<<"msd", 0>>} ELSE {})

\* what a voice's PDF holds for a component of the accumulator (0 when the
\* PDF has no msd to add)
Value(a, c) ==
    CASE c[1] = "m" -> a.parameters[c[2]][1]
      [] c[1] = "v" -> a.parameters[c[2]][2]
      [] c[1] = "msd" -> IF a.msd.some THEN a.msd.v ELSE 0

\* the sum over the first k voices of w[v] times the voice's value, in
\* exact arithmetic
RECURSIVE WeightedSum(_, _, _)
WeightedSum(w, c, k) ==
    IF k = 0 THEN 0
    ELSE WeightedSum(w, c, k - 1) + w[k] * Value(mx_params[k], c)

Exact(x) == Fl(x) = x

\* no product and no partial sum of the mix with weights w is rounded
NoRounding(w, c) ==
    \A k \in 1..Len(mx_params) :
        /\ Exact(w[k] * Value(mx_params[k], c))
        /\ Exact(WeightedSum(w, c, k))

SumOfWeights == [k \in 1..Len(mx_params) |-> mx_w1[k] + mx_w2[k]]

\* C6: the mix yields, for every mean, variance and the msd, the sum over
\* the voices of w[v] times the voice's value; so the result for w1 + w2 is
\* the component-wise sum of the results for w1 and for w2.
C6_MixLinear ==
    mx_pc = "done" =>
        \A c \in Components(mx_a1) :
            /\ Value(mx_a1, c) = WeightedSum(mx_w1, c, Len(mx_params))
            /\ Value(mx_a12, c) = FAdd(Value(mx_a1, c), Value(mx_a2, c))

\* C6 as amended: the accumulator keeps the shape ModelParameter::new gave
\* it, and whenever no product and no partial sum is rounded, every
\* component is the exact weighted sum and the mix is linear in the weights.
C6_MixLinearUnrounded ==
    /\ Components(mx_a1) = Components(mx_a2)
    /\ Components(mx_a1) = Components(mx_a12)
    /\ \A v \in 1..Len(mx_params) :
          Len(mx_a1.parameters) = Len(mx_params[v].parameters)
    /\ mx_pc = "done" =>
          \A c \in Components(mx_a1) :
              /\ NoRounding(mx_w1, c) =>
                     Value(mx_a1, c) = WeightedSum(mx_w1, c, Len(mx_params))
              /\ NoRounding(mx_w2, c) =>
                     Value(mx_a2, c) = WeightedSum(mx_w2, c, Len(mx_params))
              /\ (NoRounding(mx_w1, c) /\ NoRounding(mx_w2, c)
                    /\ NoRounding(SumOfWeights, c)
                    /\ \A k \in 1..Len(mx_params) : Exact(mx_w1[k] + mx_w2[k])) =>
                     Value(mx_a12, c) = Value(mx_a1, c) + Value(mx_a2, c)

\* two voices mixed without rounding, every weight and the msd taking part
C6_Witness ==
    /\ mx_pc = "done"
    /\ Len(mx_params) >= 2
    /\ Len(mx_a1.parameters) >= 1
    /\ mx_a1.msd.some /\ mx_params[1].msd.some
    /\ \A k \in 1..Len(mx_params) : mx_w1[k] > 1 /\ mx_w2[k] > 0
    /\ \A c \in Components(mx_a1) :
          /\ NoRounding(mx_w1, c) /\ NoRounding(mx_w2, c)
          /\ NoRounding(SumOfWeights, c)
          /\ Value(mx_a12, c) > Value(mx_a1, c)
          /\ Value(mx_a1, c) > Value(mx_a2, c)

\* ------------------------------------------------------------------------
\* The Condition process: Default, load_model once, then setter calls
\* ------------------------------------------------------------------------

\* option strings of stream 0: parsable and unparsable values of the three
\* keys, other keys, and text without `=`
Options ==
    {<<"G", "A", "M", "M", "A", "=", "0">>,
     <<"G", "A", "M", "M", "A", "=", "2">>,
     <<"G", "A", "M", "M", "A", "=", "+", "1">>,
     <<"G", "A", "M", "M", "A", "=", "-", "1">>,
     <<"G", "A", "M", "M", "A", "=", "x">>,
     <<"G", "A", "M", "M", "A", "=">>,
     <<"L", "N", "_", "G", "A", "I", "N", "=", "1">>,
     <<"L", "N", "_", "G", "A", "I", "N", "=", "0">>,
     <<"L", "N", "_", "G", "A", "I", "N", "=", "2">>,
     <<"L", "N", "_", "G", "A", "I", "N", "=", "+", "1">>,
     <<"A", "L", "P", "H", "A", "=", "0", ".", "5">>,
     <<"A", "L", "P", "H", "A", "=", "2">>,
     <<"A", "L", "P", "H", "A", "=", "-", ".", "5">>,
     <<"A", "L", "P", "H", "A", "=", "N", "a", "N">>,
     <<"A", "L", "P", "H", "A", "=", "x">>,
     <<"A", "L", "P", "H", "A", "=", ".">>,
     <<"A", "L", "P", "H", "A", "=", "1", "=", "2">>,
     <<"B", "E", "T", "A", "=", "1">>,
     <<"G", "A", "M", "M", "A">>,
     <<"g", "a", "m", "m", "a", "=", "1">>,
     <<"=", "1">>}

LoadVoices ==
    [num_streams : {2, 3},
     sampling_frequency : {0, 3},
     frame_period : {2},
     option : SeqsUpTo(Options, MaxOptions)]

InitLoad ==
    /\ cd_pc = "new"
    /\ cd_cond = Condition_default
    /\ cd_voices \in LoadVoices
    /\ cd_ret = Ok
    /\ cd_last = NoCall
    /\ cd_calls = 0
    /\ AllIdleBut("cd")

LoadModel ==
    /\ cd_pc = "new"
    /\ LET r == load_model(cd_cond, cd_voices)
       IN /\ cd_cond' = r.cond
          /\ cd_ret' = r.ret
          /\ cd_pc' = IF r.ret.ok THEN "loaded" ELSE "failed"
    /\ cd_last' = [NoCall EXCEPT !.op = "load_model"]
    /\ UNCHANGED <<cd_voices, cd_calls>>
    /\ UNCHANGED exceptCd

NextLoad == LoadModel

SpecLoad == InitLoad /\ [][NextLoad]_vars

\* ------------------------------------------------------------------------
\* Claims on load_model's options
\* ------------------------------------------------------------------------

OptionKey(option) == SubSeq(option, 1, FirstIndex(option, "=") - 1)
OptionValue(option) == SubSeq(option, FirstIndex(option, "=") + 1, Len(option))

\* a recognized key with a value that does not parse into its type
Unparsable(option) ==
    /\ Recognized(option)
    /\ \/ OptionKey(option) = KeyGamma /\ ~ParseUsize(OptionValue(option)).ok
       \/ OptionKey(option) = KeyAlpha /\ ~ParseF64(OptionValue(option)).ok
       \/ OptionKey(option) = KeyLnGain
          /\ OptionValue(option) \notin {<<"0">>, <<"1">>}

FirstUnparsable(options) ==
    CHOOSE k \in 1..Len(options) :
        Unparsable(options[k]) /\ \A m \in 1..(k - 1) : ~Unparsable(options[m])

\* C8: load_model returns ParseOptionError with the key of the first
\* recognized option whose value does not parse (GAMMA not an unsigned
\* integer, ALPHA not a number, LN_GAIN neither "0" nor "1"), and Ok when
\* every recognized option parses.
C8_ParseOptionError ==
    cd_last.op = "load_model" =>
        IF \E k \in 1..Len(cd_voices.option) : Unparsable(cd_voices.option[k])
        THEN cd_ret = ParseOptionError(
                 OptionKey(cd_voices.option[FirstUnparsable(cd_voices.option)]))
        ELSE cd_ret = Ok

C8_Witness ==
    /\ cd_last.op = "load_model"
    /\ Len(cd_voices.option) = 2
    /\ Recognized(cd_voices.option[1])
    /\ ~Unparsable(cd_voices.option[1])
    /\ Unparsable(cd_voices.option[2])
    /\ cd_ret = ParseOptionError(KeyLnGain)

Without(options, k) ==
    SubSeq(options, 1, k - 1) \o SubSeq(options, k + 1, Len(options))

\* C9: an option with another key or without `=` is ignored: load_model
\* leaves stage, use_log_gain and alpha, and returns, exactly as it does on
\* the option list without that option.
C9_UnknownIgnored ==
    cd_last.op = "load_model" =>
        \A k \in 1..Len(cd_voices.option) :
            ~Recognized(cd_voices.option[k]) =>
                LET r == load_model(Condition_default,
                             [cd_voices EXCEPT
                                 !.option = Without(cd_voices.option, k)])
                IN /\ cd_cond.stage = r.cond.stage
                   /\ cd_cond.use_log_gain = r.cond.use_log_gain
                   /\ cd_cond.alpha = r.cond.alpha
                   /\ cd_ret = r.ret

C9_Witness ==
    /\ cd_last.op = "load_model"
    /\ cd_pc = "loaded"
    /\ Len(cd_voices.option) = 2
    /\ ~Recognized(cd_voices.option[1])
    /\ Recognized(cd_voices.option[2])
    /\ cd_cond.stage = 2

\* arguments of the setters
F64Args == {NaN, F(0 - 5), F(0), F(5), F(One \div 2), F(One), F(2 * One)}
UsizeArgs == {0, 1, 3}
StreamIndexes == 0..3

CondVoices ==
    [num_streams : {2, 3},
     sampling_frequency : {0, 3},
     frame_period : {2},
     option : {<<>>, <<KeyAlpha \o <<"=", "2">> >>, <<KeyGamma \o <<"=", "x">> >>}]

InitCond ==
    /\ cd_pc = "new"
    /\ cd_cond = Condition_default
    /\ cd_voices \in CondVoices
    /\ cd_ret = Ok
    /\ cd_last = NoCall
    /\ cd_calls = 0
    /\ AllIdleBut("cd")

\* a setter call that returns: the Condition it leaves, and the record of it
Called(cond, call) ==
    /\ cd_pc \in {"new", "loaded", "failed"}
    /\ cd_calls < MaxCalls
    /\ cd_calls' = cd_calls + 1
    /\ cd_cond' = cond
    /\ cd_last' = call
    /\ UNCHANGED <<cd_pc, cd_voices, cd_ret>>
    /\ UNCHANGED exceptCd

\* a setter call whose index is out of the Vec's bounds: the process aborts
Aborted(call) ==
    /\ cd_pc \in {"new", "loaded", "failed"}
    /\ cd_calls < MaxCalls
    /\ cd_calls' = cd_calls + 1
    /\ cd_pc' = "aborted"
    /\ cd_last' = call
    /\ UNCHANGED <<cd_cond, cd_voices, cd_ret>>
    /\ UNCHANGED exceptCd

set_sampling_frequency ==
    \E i \in UsizeArgs :
        Called([cd_cond EXCEPT !.sampling_frequency = usize_max(i, 1)],
               [NoCall EXCEPT !.op = "set_sampling_frequency", !.n = i])

set_fperiod ==
    \E i \in UsizeArgs :
        Called([cd_cond EXCEPT !.fperiod = usize_max(i, 1)],
               [NoCall EXCEPT !.op = "set_fperiod", !.n = i])

set_msd_threshold ==
    \E stream_index \in StreamIndexes, f \in F64Args :
        LET call == [NoCall EXCEPT !.op = "set_msd_threshold",
                                   !.idx = stream_index, !.f = f]
        IN IF stream_index < Len(cd_cond.msd_threshold)
           THEN Called([cd_cond EXCEPT !.msd_threshold[stream_index + 1] =
                                           f64_clamp(f, F(0), F(One))], call)
           ELSE Aborted(call)

set_gv_weight ==
    \E stream_index \in StreamIndexes, f \in F64Args :
        LET call == [NoCall EXCEPT !.op = "set_gv_weight",
                                   !.idx = stream_index, !.f = f]
        IN IF stream_index < Len(cd_cond.gv_weight)
           THEN Called([cd_cond EXCEPT !.gv_weight[stream_index + 1] =
                                           f64_max(f, F(0))], call)
           ELSE Aborted(call)

set_speed ==
    \E f \in F64Args :
        Called([cd_cond EXCEPT !.speed = f64_max(f, F(SpeedMin))],
               [NoCall EXCEPT !.op = "set_speed", !.f = f])

set_phoneme_alignment_flag ==
    \E b \in BOOLEAN :
        Called([cd_cond EXCEPT !.phoneme_alignment_flag = b],
               [NoCall EXCEPT !.op = "set_phoneme_alignment_flag", !.b = b])

set_alpha ==
    \E f \in F64Args :
        Called([cd_cond EXCEPT !.alpha = f64_clamp(f, F(0), F(One))],
               [NoCall EXCEPT !.op = "set_alpha", !.f = f])

set_beta ==
    \E f \in F64Args :
        Called([cd_cond EXCEPT !.beta = f64_clamp(f, F(0), F(One))],
               [NoCall EXCEPT !.op = "set_beta", !.f = f])

set_additional_half_tone ==
    \E f \in F64Args :
        Called([cd_cond EXCEPT !.additional_half_tone = f],
               [NoCall EXCEPT !.op = "set_additional_half_tone", !.f = f])

\* the getters
get_sampling_frequency(cond) == cond.sampling_frequency
get_fperiod(cond) == cond.fperiod
get_msd_threshold(cond, stream_index) == cond.msd_threshold[stream_index + 1]
get_gv_weight(cond, stream_index) == cond.gv_weight[stream_index + 1]
get_speed(cond) == cond.speed
get_alpha(cond) == cond.alpha
get_beta(cond) == cond.beta

NextCond ==
    \/ LoadModel
    \/ set_sampling_frequency
    \/ set_fperiod
    \/ set_msd_threshold
    \/ set_gv_weight
    \/ set_speed
    \/ set_phoneme_alignment_flag
    \/ set_alpha
    \/ set_beta
    \/ set_additional_half_tone

SpecCond == InitCond /\ [][NextCond]_vars

\* ------------------------------------------------------------------------
\* Claims on the setters
\* ------------------------------------------------------------------------

InRange(x, lo, hi) == ~x.nan /\ lo <= x.v /\ x.v <= hi

\* the real number x brought into [lo, hi]
Coerce(x, lo, hi) == IF x < lo THEN lo ELSE IF x > hi THEN hi ELSE x

\* the real number x raised to lo at least
Raise(x, lo) == IF x < lo THEN lo ELSE x

\* C7: after a setter returned, the field it sets holds a value of the
\* legal range (at least 1 for sampling_frequency and fperiod, [0, 1] for
\* msd_threshold, alpha and beta, at least 0 for gv_weight, at least 1e-6
\* for speed), which is the argument when that is in the range and the
\* nearest bound otherwise, and the getter returns it.
C7_SettersCoerce ==
    LET op == cd_last.op
        f == cd_last.f
        Unit(x) == /\ InRange(x, 0, One)
                   /\ ~f.nan => x = F(Coerce(f.v, 0, One))
        AtLeast(x, lo) == /\ ~x.nan
                          /\ x.v >= lo
                          /\ ~f.nan => x = F(Raise(f.v, lo))
    IN cd_pc # "aborted" =>
        /\ op = "set_sampling_frequency" =>
               get_sampling_frequency(cd_cond) = Raise(cd_last.n, 1)
        /\ op = "set_fperiod" => get_fperiod(cd_cond) = Raise(cd_last.n, 1)
        /\ op = "set_msd_threshold" =>
               Unit(get_msd_threshold(cd_cond, cd_last.idx))
        /\ op = "set_alpha" => Unit(get_alpha(cd_cond))
        /\ op = "set_beta" => Unit(get_beta(cd_cond))
        /\ op = "set_gv_weight" =>
               AtLeast(get_gv_weight(cd_cond, cd_last.idx), 0)
        /\ op = "set_speed" => AtLeast(get_speed(cd_cond), SpeedMin)

\* ------------------------------------------------------------------------
\* Synthesis: the frame loop of SpeechGenerator::synthesize and of
\* GStreamSet::create over a Vocoder.  A sample is 0 as the buffer is
\* created and 1 + i once frame i wrote it.
\* ------------------------------------------------------------------------

\* where frame i's slice of the buffer starts, taken at the frame's number
slice_start_unscaled(i, fperiod) == i

\* where frame i's slice of the buffer starts: `i * fperiod`
slice_start(i, fperiod) == i * fperiod

\* where the slice handed to the vocoder ends: `(i + 1) * fperiod` in
\* speech.rs, the end of the buffer in gstream.rs
slice_end(driver, i, fperiod, len) ==
    IF driver = "speech" THEN (i + 1) * fperiod ELSE len

\* the checks both drivers make before the buffer is created
checks_pass(driver, total_frame, lf0_len, lpf_len) ==
    IF driver = "speech"
    THEN total_frame > 0 =>
             /\ lf0_len = 1
             /\ ~(lpf_len.some /\ lpf_len.v % 2 = 0)
    ELSE /\ lf0_len = 1
         /\ ~(lpf_len.some /\ lpf_len.v % 2 = 0)

\* Vocoder::synthesize on the slice [from, to) of the buffer, as frame i:
\* `rawdata[k] = x * self.volume` for k in 0..self.fperiod
vocoder_synthesize(speech, from, v_fperiod, i) ==
    [p \in 1..Len(speech) |->
        IF from < p /\ p <= from + v_fperiod THEN 1 + i ELSE speech[p]]

\* Engine::generate_speech hands the Condition's fperiod to the Vocoder and
\* to the driver; GStreamSet::create does the same with its argument
InitSynth ==
    /\ sy_pc = "start"
    /\ sy_driver \in {"speech", "gstream"}
    /\ sy_total_frame \in 0..MaxFrames
    /\ sy_lf0_len \in {1, 2}
    /\ sy_lpf_len \in {None, Some(1), Some(2)}
    /\ sy_fperiod \in 0..MaxFperiod
    /\ sy_v_fperiod = sy_fperiod
    /\ sy_speech = <<>>
    /\ sy_i = 0
    /\ AllIdleBut("sy")

\* the checks, then `vec![0.0; total_frame * fperiod]`
CreateBuffer ==
    /\ sy_pc = "start"
    /\ IF checks_pass(sy_driver, sy_total_frame, sy_lf0_len, sy_lpf_len)
       THEN /\ sy_pc' = "frames"
            /\ sy_speech' = [p \in 1..(sy_total_frame * sy_fperiod) |-> 0]
       ELSE /\ sy_pc' = "panic"
            /\ UNCHANGED sy_speech
    /\ UNCHANGED <<sy_driver, sy_total_frame, sy_lf0_len, sy_lpf_len,
                   sy_fperiod, sy_v_fperiod, sy_i>>
    /\ UNCHANGED exceptSy

\* one turn of `for i in 0..total_frame`: slicing the buffer panics when
\* the slice leaves it, the vocoder's write when it leaves the slice
SynthesizeFrame ==
    /\ sy_pc = "frames"
    /\ sy_i < sy_total_frame
    /\ LET from == slice_start(sy_i, sy_fperiod)
           to == slice_end(sy_driver, sy_i, sy_fperiod, Len(sy_speech))
       IN IF from <= to /\ to <= Len(sy_speech) /\ sy_v_fperiod <= to - from
          THEN /\ sy_speech' =
                      vocoder_synthesize(sy_speech, from, sy_v_fperiod, sy_i)
               /\ sy_i' = sy_i + 1
               /\ sy_pc' = "frames"
          ELSE /\ sy_pc' = "panic"
               /\ UNCHANGED <<sy_speech, sy_i>>
    /\ UNCHANGED <<sy_driver, sy_total_frame, sy_lf0_len, sy_lpf_len,
                   sy_fperiod, sy_v_fperiod>>
    /\ UNCHANGED exceptSy

\* the loop is over: the buffer is returned
ReturnSpeech ==
    /\ sy_pc = "frames"
    /\ sy_i = sy_total_frame
    /\ sy_pc' = "done"
    /\ UNCHANGED <<sy_driver, sy_total_frame, sy_lf0_len, sy_lpf_len,
                   sy_fperiod, sy_v_fperiod, sy_speech, sy_i>>
    /\ UNCHANGED exceptSy

NextSynth == CreateBuffer \/ SynthesizeFrame \/ ReturnSpeech

SpecSynth == InitSynth /\ [][NextSynth]_vars

\* C10: the buffer has total_frame * fperiod samples from its creation to
\* its return; once i frames are done, the sample at position p is frame
\* (p div fperiod)'s when p < i * fperiod and is untouched otherwise; the
\* loop never aborts, and the buffer is returned after total_frame frames.
C10_OutputLength ==
    /\ sy_pc \in {"frames", "done"} =>
           /\ Len(sy_speech) = sy_total_frame * sy_fperiod
           /\ \A p \in 0..(Len(sy_speech) - 1) :
                  sy_speech[p + 1] =
                      IF p < sy_i * sy_fperiod
                      THEN 1 + (p \div sy_fperiod)
                      ELSE 0
    /\ sy_pc = "done" => sy_i = sy_total_frame
    /\ sy_pc = "panic" =>
           ~checks_pass(sy_driver, sy_total_frame, sy_lf0_len, sy_lpf_len)

C10_Witness ==
    /\ sy_pc = "done"
    /\ sy_driver = "gstream"
    /\ sy_total_frame = MaxFrames
    /\ sy_fperiod >= 2
    /\ sy_speech[Len(sy_speech)] = MaxFrames

\* ------------------------------------------------------------------------
\* Vocoder (vocoder/mod.rs, vocoder/stage.rs).  An lf0 is NODATA or the
\* logarithm Ln(f0) of a frequency f0, so that exp(Ln(f0)) = f0 and the
\* order of two lf0 is the order of their frequencies; Ln(0) stands for an
\* lf0 so low that exp gives 0.  Coefficients are integers chosen so that
\* every product and quotient the code forms is exact.  The conversions of
\* a spectrum (cepstrum.rs, lsp.rs) are not under src/: a spectrum here is
\* the pair of their results, `plain` without and `post` with the
\* postfilter.  A sample is the record of what made it.
\* ------------------------------------------------------------------------

MIN_F0 == 20
MAX_F0 == 20000

NODATA == [nodata |-> TRUE, f0 |-> 0]
Ln(f0) == [nodata |-> FALSE, f0 |-> f0]
MIN_LF0 == Ln(MIN_F0)
MAX_LF0 == Ln(MAX_F0)

\* f64::exp
exp(lf0) == lf0.f0

\* the pitch period with the two bounds exchanged
pitch_period_swapped(rate, lf0) ==
    IF lf0 = NODATA THEN 0
    ELSE IF lf0.f0 <= MIN_LF0.f0 THEN rate \div MAX_F0
    ELSE IF lf0.f0 >= MAX_LF0.f0 THEN rate \div MIN_F0
    ELSE rate \div exp(lf0)

\* `let p = if lf0 == NODATA { 0.0 } else if lf0 <= MIN_LF0 { ... }`
pitch_period(rate, lf0) ==
    IF lf0 = NODATA THEN 0
    ELSE IF lf0.f0 <= MIN_LF0.f0 THEN rate \div MIN_F0
    ELSE IF lf0.f0 >= MAX_LF0.f0 THEN rate \div MAX_F0
    ELSE rate \div exp(lf0)

\* Stage::new: the coefficients start empty, the filter's delay lines new
\* (d counts the samples that went through them)
Stage_new(stage, c_len) ==
    [tag |-> IF stage = 0 THEN "Zero" ELSE "NonZero",
     stage |-> stage,
     coefficients |-> <<>>,
     filter |-> [len |-> c_len, d |-> 0]]

\* the Vocoder of the call before, when there is one, instead of a new one
Vocoder_reused(m, stage, use_log_gain, rate, fperiod, alpha, beta, volume) ==
    IF en_dropped.some THEN en_dropped.v
    ELSE [stage |-> Stage_new(stage, m + 1),
          use_log_gain |-> use_log_gain,
          fperiod |-> fperiod,
          rate |-> rate,
          alpha |-> alpha,
          beta |-> beta,
          volume |-> volume,
          excitation |-> None]

Vocoder_new(m, stage, use_log_gain, rate, fperiod, alpha, beta, volume) ==
    [stage |-> Stage_new(stage, m + 1),
     use_log_gain |-> use_log_gain,
     fperiod |-> fperiod,
     rate |-> rate,
     alpha |-> alpha,
     beta |-> beta,
     volume |-> volume,
     excitation |-> None]

\* `for i in 1..coefficients.len() { coefficients[i] *= gamma }`, with
\* gamma = -1 / stage
times_gamma(c, stage) ==
    [i \in 1..Len(c) |-> IF i = 1 THEN c[i] ELSE (0 - c[i]) \div stage]

\* the coefficients of a spectrum: mc2b for stage 0, lsp2mgc, mc2b, gnorm
\* and the product with gamma otherwise
coefficients_of(stage, converted) ==
    IF stage.tag = "Zero" THEN converted ELSE times_gamma(converted, stage.stage)

\* the first-frame initialization runs at every call
needs_init_always(v) == TRUE

\* `if self.excitation.is_none()`
needs_init(v) == ~v.excitation.some

\* the coefficients after the first-frame initialization, if it runs
initialized(v, spectrum) ==
    IF needs_init(v)
    THEN coefficients_of(v.stage, spectrum.plain)
    ELSE v.stage.coefficients

\* the frame's target: the postfiltered spectrum's coefficients
target(v, spectrum) == coefficients_of(v.stage, spectrum.post)

\* `.map(|(cc, c)| (cc - c) / self.fperiod as f64)` over the zip of cc and
\* the coefficients; with fperiod 0 the quotients are never read
increments(cc, coefficients, fperiod) ==
    [i \in 1..(IF Len(cc) <= Len(coefficients) THEN Len(cc)
               ELSE Len(coefficients)) |->
        IF fperiod = 0 THEN 0 ELSE (cc[i] - coefficients[i]) \div fperiod]

\* Excitation (spec 4.G): the pitch period in force, the phase of the pulse
\* train, the position of the noise generator, the length of the low-pass
\* filter it was built for
Excitation_new(p, nlpf) ==
    [p_cur |-> p, p_next |-> p, phase |-> 0, draws |-> 0, nlpf |-> nlpf]

excitation_start(e, p, fperiod) == [e EXCEPT !.p_next = p]

\* noise when the pitch period is 0, else a pulse every p_cur samples and 0
\* in between
excitation_get(e, lpf) ==
    LET pulse == e.p_cur # 0 /\ e.phase + 1 >= e.p_cur
        zero == e.p_cur # 0 /\ ~pulse
    IN [e |-> [e EXCEPT !.draws = e.draws + 1,
                        !.phase = IF e.p_cur = 0 THEN e.phase
                                  ELSE IF pulse THEN 0 ELSE e.phase + 1],
        x |-> [zero |-> zero, p |-> e.p_cur, n |-> e.draws, lpf |-> lpf]]

excitation_end(e, p) == [e EXCEPT !.p_cur = p]

\* the entries of the log
Event(op, p, n, lpf, c) == [op |-> op, p |-> p, n |-> n, lpf |-> lpf, c |-> c]

\* the sample loop's body with the increment before the filter
sample_inc_first(v, cinc, lpf) ==
    LET st == v.stage
        c == st.coefficients
        g == excitation_get(v.excitation.v, lpf)
        gain == IF st.tag = "Zero"
                THEN IF ~g.x.zero THEN <<"exp", c[1]>> ELSE <<"none", 0>>
                ELSE <<"mul", c[1]>>
        moved == [i \in 1..Len(c) |-> c[i] + cinc[i]]
        x == [x |-> g.x, gain |-> gain, c |-> moved, d |-> st.filter.d]
    IN [v |-> [v EXCEPT !.excitation = Some(g.e),
                        !.stage.filter.d = st.filter.d + 1,
                        !.stage.coefficients = moved],
        raw |-> [x |-> x, volume |-> v.volume],
        log |-> <<Event("get", 0, 0, lpf, <<>>), Event("gain", 0, 0, <<>>, <<>>),
                  Event("df", 0, 0, <<>>, moved), Event("inc", 0, 0, <<>>, <<>>),
                  Event("write", 0, 0, <<>>, <<>>)>>]

\* the sample loop's body: draw, gain, filter, increment; what is written
\* is x * self.volume
sample(v, cinc, lpf) ==
    LET st == v.stage
        c == st.coefficients
        g == excitation_get(v.excitation.v, lpf)
        gain == IF st.tag = "Zero"
                THEN IF ~g.x.zero THEN <<"exp", c[1]>> ELSE <<"none", 0>>
                ELSE <<"mul", c[1]>>
        x == [x |-> g.x, gain |-> gain, c |-> c, d |-> st.filter.d]
    IN [v |-> [v EXCEPT !.excitation = Some(g.e),
                        !.stage.filter.d = st.filter.d + 1,
                        !.stage.coefficients =
                            [i \in 1..Len(c) |-> c[i] + cinc[i]]],
        raw |-> [x |-> x, volume |-> v.volume],
        log |-> <<Event("get", 0, 0, lpf, <<>>), Event("gain", 0, 0, <<>>, <<>>),
                  Event("df", 0, 0, <<>>, c), Event("inc", 0, 0, <<>>, <<>>),
                  Event("write", 0, 0, <<>>, <<>>)>>]

\* the frame's end without the call of end
frame_end_no_end(v, p, cc) ==
    [v |-> [v EXCEPT !.stage.coefficients = cc], log |-> <<>>]

\* `excitation.end(p); *coefficients = cc;`
frame_end(v, p, cc) ==
    [v |-> [v EXCEPT !.excitation = Some(excitation_end(v.excitation.v, p)),
                     !.stage.coefficients = cc],
     log |-> <<Event("end", p, 0, <<>>, <<>>)>>]

\* Vocoder::synthesize up to the sample loop
frame_begin(v, frame) ==
    LET p == pitch_period(v.rate, frame.lf0)
        c == initialized(v, frame.spectrum)
        cc == target(v, frame.spectrum)
        cinc == increments(cc, c, v.fperiod)
        e == IF v.excitation.some THEN v.excitation.v
             ELSE Excitation_new(p, Len(frame.lpf))
    IN [v |-> [v EXCEPT !.stage.coefficients = c,
                        !.excitation = Some(excitation_start(e, p, v.fperiod))],
        p |-> p, cc |-> cc, cinc |-> cinc, start |-> c,
        log |-> (IF needs_init(v) THEN <<Event("init", 0, 0, <<>>, c)>> ELSE <<>>)
                \o (IF v.excitation.some THEN <<>>
                    ELSE <<Event("new", p, Len(frame.lpf), <<>>, <<>>)>>)
                \o <<Event("start", p, v.fperiod, <<>>, <<>>)>>]

\* ------------------------------------------------------------------------
\* The vocoder process: one Vocoder, a caller that hands it frame after
\* frame; a synthesize call is FrameBegin, fperiod Samples, FrameEnd
\* ------------------------------------------------------------------------

\* results of the conversions, all multiples of 24 (gamma and fperiod
\* divide them)
Spectrum1 == [plain |-> <<24, 48>>, post |-> <<24, 96>>]
Spectrum2 == [plain |-> <<0, 24>>, post |-> <<0, 24>>]

\* an lf0 of each kind: no data, below, at, between, at and above the bounds
VFrames ==
    {[lf0 |-> NODATA, spectrum |-> Spectrum1],
     [lf0 |-> Ln(0), spectrum |-> Spectrum2],
     [lf0 |-> Ln(10), spectrum |-> Spectrum1],
     [lf0 |-> MIN_LF0, spectrum |-> Spectrum2],
     [lf0 |-> Ln(10000), spectrum |-> Spectrum1],
     [lf0 |-> MAX_LF0, spectrum |-> Spectrum2],
     [lf0 |-> Ln(40000), spectrum |-> Spectrum2]}

VLpfs == {<<>>, <<24>>}
VStages == {0, 1, 2}
VRates == {20000, 40000}

InitVocoder ==
    /\ vc_pc = "idle"
    /\ \E stage \in VStages, rate \in VRates, fperiod \in 0..MaxVPeriod :
           vc_v = Vocoder_new(1, stage, FALSE, rate, fperiod, 0, 0, 1)
    /\ \E lpf \in VLpfs, n \in 0..MaxVFrames :
           \E fs \in [1..n -> VFrames] :
               vc_frames = [k \in 1..n |-> [lf0 |-> fs[k].lf0,
                                            spectrum |-> fs[k].spectrum,
                                            lpf |-> lpf]]
    /\ vc_t = 0
    /\ vc_k = 0
    /\ vc_frame = None
    /\ vc_rawdata = <<>>
    /\ vc_log = <<>>
    /\ AllIdleBut("vc")

FrameBegin ==
    /\ vc_pc = "idle"
    /\ vc_t < Len(vc_frames)
    /\ LET r == frame_begin(vc_v, vc_frames[vc_t + 1])
       IN /\ vc_v' = r.v
          /\ vc_frame' = Some([p |-> r.p, cc |-> r.cc, cinc |-> r.cinc,
                               start |-> r.start,
                               lpf |-> vc_frames[vc_t + 1].lpf])
          /\ vc_log' = vc_log \o r.log
    /\ vc_pc' = "samples"
    /\ vc_k' = 0
    /\ vc_rawdata' = <<>>
    /\ UNCHANGED <<vc_frames, vc_t>>
    /\ UNCHANGED exceptVc

Sample ==
    /\ vc_pc = "samples"
    /\ vc_k < vc_v.fperiod
    /\ LET r == sample(vc_v, vc_frame.v.cinc, vc_frame.v.lpf)
       IN /\ vc_v' = r.v
          /\ vc_rawdata' = Append(vc_rawdata, r.raw)
          /\ vc_log' = vc_log \o r.log
    /\ vc_k' = vc_k + 1
    /\ UNCHANGED <<vc_pc, vc_frames, vc_t, vc_frame>>
    /\ UNCHANGED exceptVc

FrameEnd ==
    /\ vc_pc = "samples"
    /\ vc_k = vc_v.fperiod
    /\ LET r == frame_end(vc_v, vc_frame.v.p, vc_frame.v.cc)
       IN /\ vc_v' = r.v
          /\ vc_log' = vc_log \o r.log
    /\ vc_pc' = "idle"
    /\ vc_t' = vc_t + 1
    /\ UNCHANGED <<vc_frames, vc_k, vc_frame, vc_rawdata>>
    /\ UNCHANGED exceptVc

NextVocoder == FrameBegin \/ Sample \/ FrameEnd

SpecVocoder == InitVocoder /\ [][NextVocoder]_vars

\* ------------------------------------------------------------------------
\* Claims on the vocoder
\* ------------------------------------------------------------------------

\* how many entries of the log are calls of op
Count(op) == Cardinality({i \in DOMAIN vc_log : vc_log[i].op = op})

\* the first synthesize call has begun
Started == vc_t > 0 \/ vc_pc = "samples"

\* a synthesize call after the first begins
LaterFrameBegins == vc_pc = "idle" /\ vc_pc' = "samples" /\ vc_t > 0

\* C15: the first-frame initialization of the coefficients and the creation
\* of the excitation happen in the first synthesize call, once, and in no
\* later call; before it there is no excitation; a later call finds the
\* coefficients, the filter's delay lines and the excitation as the call
\* before left them.
C15_FirstFrameInit ==
    /\ [](/\ ~Started =>
                /\ ~vc_v.excitation.some
                /\ Count("init") = 0
                /\ Count("new") = 0
          /\ Started =>
                /\ vc_v.excitation.some
                /\ Count("init") = 1
                /\ Count("new") = 1
                /\ vc_log[1].op = "init"
                /\ vc_log[2].op = "new")
    /\ [][LaterFrameBegins =>
            /\ vc_v'.stage = vc_v.stage
            /\ vc_v'.excitation.v.p_cur = vc_v.excitation.v.p_cur
            /\ vc_v'.excitation.v.phase = vc_v.excitation.v.phase
            /\ vc_v'.excitation.v.draws = vc_v.excitation.v.draws
            /\ vc_v'.excitation.v.nlpf = vc_v.excitation.v.nlpf]_vars

C15_Witness ==
    /\ vc_pc = "samples"
    /\ vc_t = 1
    /\ vc_k = 1
    /\ vc_frames[1].spectrum # vc_frames[2].spectrum
    /\ vc_v.stage.tag = "NonZero"

\* start + k * cinc, component by component
Interpolated(start, cinc, k) == [i \in 1..Len(start) |-> start[i] + k * cinc[i]]

IsExcitationCall(e) == e.op \in {"start", "get", "end"}

\* the calls made on the excitation, in order
ExcitationCalls == SelectSeq(vc_log, IsExcitationCall)

\* C17: the calls on the excitation are, frame after frame, one
\* start(p, fperiod), fperiod draws, one end(p) with the p of the start,
\* and nothing else; each draw is followed, in this order, by the gain, the
\* filter, the increment of the coefficients and the write.
C17_ExcitationProtocol ==
    LET calls == ExcitationCalls
        per == vc_v.fperiod + 2
    IN /\ Len(calls) = vc_t * per + (IF vc_pc = "samples" THEN 1 + vc_k ELSE 0)
       /\ \A j \in 0..(Len(calls) - 1) :
              LET e == calls[j + 1]
                  pos == j % per
              IN /\ pos = 0 =>
                        /\ e.op = "start"
                        /\ e.n = vc_v.fperiod
                        /\ e.p = pitch_period(vc_v.rate,
                                              vc_frames[(j \div per) + 1].lf0)
                 /\ (0 < pos /\ pos <= vc_v.fperiod) => e.op = "get"
                 /\ pos = vc_v.fperiod + 1 =>
                        /\ e.op = "end"
                        /\ e.p = calls[j + 1 - pos].p
       /\ \A i \in DOMAIN vc_log :
              vc_log[i].op = "get" =>
                  /\ i + 4 <= Len(vc_log)
                  /\ vc_log[i + 1].op = "gain"
                  /\ vc_log[i + 2].op = "df"
                  /\ vc_log[i + 3].op = "inc"
                  /\ vc_log[i + 4].op = "write"

C17_Witness ==
    /\ vc_pc = "idle"
    /\ vc_t = 2
    /\ vc_v.fperiod = 2
    /\ Count("start") = 2
    /\ Count("get") = 4
    /\ Count("end") = 2
    /\ vc_frames[1].lf0 # vc_frames[2].lf0

\* C18: a draw of the excitation gets the frame's low-pass filter when the
\* stage is 0 and an empty one when the stage is above 0.
C18_LpfOnlyStageZero ==
    \A i \in DOMAIN vc_log :
        vc_log[i].op = "get" =>
            vc_log[i].lpf = IF vc_v.stage.tag = "Zero"
                            THEN vc_frame.v.lpf
                            ELSE <<>>

RECURSIVE samples(_, _, _, _, _)
samples(v, cinc, lpf, k, rawdata) ==
    IF k >= v.fperiod THEN [v |-> v, rawdata |-> rawdata]
    ELSE LET r == sample(v, cinc, lpf)
         IN samples(r.v, cinc, lpf, k + 1, Append(rawdata, r.raw))

\* Vocoder::synthesize: the Vocoder it leaves and the samples it wrote
synthesize(v, frame) ==
    LET b == frame_begin(v, frame)
        r == samples(b.v, b.cinc, frame.lpf, 0, <<>>)
    IN [v |-> frame_end(r.v, b.p, b.cc).v, rawdata |-> r.rawdata]

\* speech[from..] after rawdata was written to its head
written(speech, from, rawdata) ==
    [p \in 1..Len(speech) |->
        IF from < p /\ p <= from + Len(rawdata)
        THEN rawdata[p - from]
        ELSE speech[p]]

\* the stream indexes generate_speech reads the metadata, the condition's
\* vectors and the models at
StreamReads == {0, 1, 2}

\* an index out of the bounds of gv_weight, msd_threshold or the streams
reads_abort(voices, condition) ==
    \E s \in StreamReads :
        \/ s >= voices.num_streams
        \/ s >= Len(condition.gv_weight)
        \/ s >= Len(condition.msd_threshold)

\* the trajectories MlpgAdjust::create generates for the labels
parameters_of(voices, condition, labels) ==
    LET lpf == <<24>>
    IN IF labels = "a"
       THEN <<[lf0 |-> NODATA, spectrum |-> Spectrum1, lpf |-> lpf],
              [lf0 |-> Ln(10000), spectrum |-> Spectrum2, lpf |-> lpf]>>
       ELSE <<[lf0 |-> Ln(10000), spectrum |-> Spectrum1, lpf |-> lpf]>>

EngineLabels == {"a", "b"}
Callers == {1, 2}

\* the frame loop of a caller works on the Vocoder of caller 1 when caller 1
\* has one
vocoder_shared(calls, c) ==
    IF calls[1].v.some THEN calls[1].v ELSE calls[c].v

\* the Vocoder the frame loop of caller c works on: the one the call built
vocoder_of(calls, c) == calls[c].v

NoRun == [pc |-> "idle", labels |-> "", v |-> None, frames |-> <<>>, t |-> 0,
          speech |-> <<>>, mixed |-> FALSE]

EngineVoices ==
    {[num_streams |-> n,
      sampling_frequency |-> 20000,
      frame_period |-> fp,
      option |-> opt,
      vector_length |-> IF n = 2 THEN <<2, 1>> ELSE <<2, 1, 1>>] :
        n \in {2, 3}, fp \in 1..MaxVPeriod,
        opt \in {<<>>, <<KeyGamma \o <<"=", "1">> >>}}

\* Engine::load: the voices, and the Condition load_model leaves
InitEngine ==
    /\ en_pc = "ready"
    /\ en_voices \in EngineVoices
    /\ en_condition = load_model(Condition_default, en_voices).cond
    /\ en_calls = [c \in Callers |-> NoRun]
    /\ en_history = <<>>
    /\ en_dropped = None
    /\ en_started = 0
    /\ AllIdleBut("en")

\* generate_speech up to the frame loop: the Vocoder, the parameters, the
\* generator's buffer
BeginCall(c) ==
    /\ en_pc = "ready"
    /\ en_calls[c].pc = "idle"
    /\ en_started < MaxEngineCalls
    /\ en_started' = en_started + 1
    /\ \E labels \in EngineLabels :
           IF reads_abort(en_voices, en_condition)
           THEN en_calls' = [en_calls EXCEPT ![c] =
                                 [NoRun EXCEPT !.pc = "panic", !.labels = labels]]
           ELSE LET frames == parameters_of(en_voices, en_condition, labels)
                IN en_calls' = [en_calls EXCEPT ![c] =
                       [pc |-> "run",
                        labels |-> labels,
                        v |-> Some(Vocoder_new(en_voices.vector_length[1],
                                               en_condition.stage,
                                               en_condition.use_log_gain,
                                               en_condition.sampling_frequency,
                                               en_condition.fperiod,
                                               en_condition.alpha,
                                               en_condition.beta,
                                               1)),
                        frames |-> frames,
                        t |-> 0,
                        mixed |-> FALSE,
                        speech |-> [p \in 1..(Len(frames) * en_condition.fperiod)
                                        |-> 0]]]
    /\ UNCHANGED <<en_pc, en_voices, en_condition, en_history, en_dropped>>
    /\ UNCHANGED exceptEn

\* a call between two turns of its frame loop
MidCall(run) == run.pc = "run" /\ 0 < run.t /\ run.t < Len(run.frames)

\* one turn of the frame loop of caller c; a call of the other caller that
\* is between two turns has been interleaved with
CallFrame(c) ==
    /\ en_calls[c].pc = "run"
    /\ en_calls[c].t < Len(en_calls[c].frames)
    /\ LET run == en_calls[c]
           r == synthesize(vocoder_of(en_calls, c).v, run.frames[run.t + 1])
       IN en_calls' = [d \in Callers |->
              IF d = c
              THEN [run EXCEPT !.v = Some(r.v),
                               !.t = run.t + 1,
                               !.speech = written(run.speech,
                                                  slice_start(run.t, en_condition.fperiod),
                                                  r.rawdata)]
              ELSE [en_calls[d] EXCEPT !.mixed = @ \/ MidCall(en_calls[d])]]
    /\ UNCHANGED <<en_pc, en_voices, en_condition, en_history, en_dropped,
                   en_started>>
    /\ UNCHANGED exceptEn

\* the call of caller c returns its samples; its Vocoder is dropped
CallReturn(c) ==
    /\ en_calls[c].pc = "run"
    /\ en_calls[c].t = Len(en_calls[c].frames)
    /\ en_history' = Append(en_history,
           [condition |-> en_condition, labels |-> en_calls[c].labels,
            speech |-> en_calls[c].speech, mixed |-> en_calls[c].mixed])
    /\ en_dropped' = en_calls[c].v
    /\ en_calls' = [en_calls EXCEPT ![c] = NoRun]
    /\ UNCHANGED <<en_pc, en_voices, en_condition, en_started>>
    /\ UNCHANGED exceptEn

\* between calls the owner of the Engine sets a field of the Condition
SetBetweenCalls ==
    /\ en_pc = "ready"
    /\ \A c \in Callers : en_calls[c].pc \in {"idle", "panic"}
    /\ \E i \in 1..MaxVPeriod :
           /\ en_condition.fperiod # usize_max(i, 1)
           /\ en_condition' = [en_condition EXCEPT !.fperiod = usize_max(i, 1)]
    /\ UNCHANGED <<en_pc, en_voices, en_calls, en_history, en_dropped,
                   en_started>>
    /\ UNCHANGED exceptEn

NextEngine ==
    \/ \E c \in Callers : BeginCall(c) \/ CallFrame(c) \/ CallReturn(c)
    \/ SetBetweenCalls

SpecEngine == InitEngine /\ [][NextEngine]_vars

\* the frame loop of a call that runs alone, from frame t on
RECURSIVE alone_from(_, _, _, _, _)
alone_from(v, frames, t, fperiod, speech) ==
    IF t >= Len(frames) THEN speech
    ELSE LET r == synthesize(v, frames[t + 1])
         IN alone_from(r.v, frames, t + 1, fperiod,
                       written(speech, slice_start(t, fperiod), r.rawdata))

\* what generate_speech returns for the labels when nothing else runs
alone(voices, condition, labels) ==
    LET frames == parameters_of(voices, condition, labels)
    IN alone_from(Vocoder_new(voices.vector_length[1], condition.stage,
                              condition.use_log_gain,
                              condition.sampling_frequency, condition.fperiod,
                              condition.alpha, condition.beta, 1),
                  frames, 0, condition.fperiod,
                  [p \in 1..(Len(frames) * condition.fperiod) |-> 0])

CallStep == \E c \in Callers : BeginCall(c) \/ CallFrame(c) \/ CallReturn(c)

\* C11: two generate_speech calls on the same engine with the same
\* condition and the same labels return the same samples, whatever calls ran
\* before or between them, and no step of a call changes the engine's voices
\* or condition.
C11_Deterministic ==
    /\ [](\A i, j \in 1..Len(en_history) :
              (/\ en_history[i].condition = en_history[j].condition
               /\ en_history[i].labels = en_history[j].labels)
              => en_history[i].speech = en_history[j].speech)
    /\ [][CallStep => /\ en_voices' = en_voices
                      /\ en_condition' = en_condition]_vars

\* two calls with the same condition and labels returned, with a call for
\* other labels between them
C11_Witness ==
    \E i, k, j \in 1..Len(en_history) :
        /\ i < k /\ k < j
        /\ en_history[i].condition = en_history[j].condition
        /\ en_history[i].labels = en_history[j].labels
        /\ en_history[k].labels # en_history[i].labels
        /\ Len(en_history[j].speech) > 0

\* C12: under every interleaving of the frame steps of two concurrent
\* calls, each call returns what it returns when it runs alone, and the
\* shared voices are never written.
C12_NoInterference ==
    /\ [](\A i \in 1..Len(en_history) :
              en_history[i].speech =
                  alone(en_voices, en_history[i].condition, en_history[i].labels))
    /\ [][en_voices' = en_voices]_vars

\* both callers' calls returned, each interleaved with the other's frames
C12_Witness ==
    \E i, j \in 1..Len(en_history) :
        /\ i # j
        /\ en_history[i].mixed
        /\ en_history[j].mixed
        /\ Len(en_history[i].speech) > 0

\* C13: with a voice set of two streams generate_speech completes: no
\* call aborts on an index that does not exist for the voice set.
C13_TwoStreams ==
    \A c \in Callers :
        en_voices.num_streams = 2 => en_calls[c].pc # "panic"

\* ------------------------------------------------------------------------
\* TreeParser::parse_node (model/parser/tree.rs) over the parsers of
\* ParseTarget (model/parser/base.rs), on text as a sequence of characters.
\* A parser returns the rest of the input and its output, or an error: a
\* recoverable one (nom::Err::Error) or a cut one (nom::Err::Failure).
\* ------------------------------------------------------------------------

POk(rest, out) == [ok |-> TRUE, failure |-> FALSE, rest |-> rest, out |-> out]
PError == [ok |-> FALSE, failure |-> FALSE, rest |-> <<>>, out |-> 0]
PFailure == [ok |-> FALSE, failure |-> TRUE, rest |-> <<>>, out |-> 0]

SEPARATOR_CHARS == {" ", "\n"}
Letters ==
    {"a", "b", "c", "d", "e", "f", "g", "h", "i", "j", "k", "l", "m", "n",
     "o", "p", "q", "r", "s", "t", "u", "v", "w", "x", "y", "z",
     "A", "B", "C", "D", "E", "F", "G", "H", "I", "J", "K", "L", "M", "N",
     "O", "P", "Q", "R", "S", "T", "U", "V", "W", "X", "Y", "Z"}
IdentifierChars == Letters \cup Digits \cup {"_"}

\* the length of the longest head of i made of characters of S
HeadLen(i, S) ==
    CHOOSE n \in 0..Len(i) :
        /\ \A k \in 1..n : i[k] \in S
        /\ n < Len(i) => i[n + 1] \notin S

From(i, n) == SubSeq(i, n + 1, Len(i))

\* take_while(cond) and take_while1(cond), the condition given as a set
parse_template(i, S) ==
    POk(From(i, HeadLen(i, S)), SubSeq(i, 1, HeadLen(i, S)))

parse_template1(i, S) ==
    IF HeadLen(i, S) = 0 THEN PError ELSE parse_template(i, S)

sp(i) == parse_template(i, SEPARATOR_CHARS)
sp1(i) == parse_template1(i, SEPARATOR_CHARS)
parse_identifier(i) == parse_template1(i, IdentifierChars)

\* the characters of the model that are ASCII and neither ' ' nor '\n'
QuestionChars == IdentifierChars \cup {"-", "\"", "<", "="}
parse_question_ident(i) == parse_template1(i, QuestionChars)

\* nom's char(c)
char(c, i) ==
    IF Len(i) >= 1 /\ i[1] = c THEN POk(From(i, 1), c) ELSE PError

\* the value of the one element of a set: with a set {f(r) : r \in {e}} it
\* is f(e), e computed once however often f reads it
once(S) == CHOOSE x \in S : TRUE

\* str::parse::<isize> of an optional '-' and digits (the values here stay
\* far inside isize)
parse_to(number) ==
    IF number[1] = "-" THEN 0 - DigitsValue(From(number, 1))
    ELSE DigitsValue(number)

\* recognize(pair(opt(char('-')), digit1)), then parse_to
parse_signed_digits(i) ==
    LET sign == IF char("-", i).ok THEN 1 ELSE 0
        n == HeadLen(From(i, sign), Digits)
    IN IF n = 0 THEN PError
       ELSE POk(From(i, sign + n), parse_to(SubSeq(i, 1, sign + n)))

TreeIndexNode(n) == [kind |-> "Node", index |-> n]
TreeIndexPdf(n) == [kind |-> "Pdf", index |-> n]

\* id_str after the loop over the characters of the identifier
RECURSIVE id_str(_, _)
id_str(input, acc) ==
    IF input = <<>> THEN acc
    ELSE id_str(Tail(input),
                IF Head(input) \in Digits THEN Append(acc, Head(input))
                ELSE <<>>)

pdf_index(i) ==
    LET r == parse_identifier(i)
    IN IF ~r.ok THEN r
       ELSE IF id_str(r.out, <<>>) = <<>> THEN PError
       ELSE POk(r.rest, TreeIndexPdf(DigitsValue(id_str(r.out, <<>>))))

\* alt((map(parse_signed_digits, TreeIndex::Node), pdf_index))
tree_index(i) ==
    LET r == parse_signed_digits(i)
    IN IF r.ok THEN POk(r.rest, TreeIndexNode(r.out)) ELSE pdf_index(i)

\* delimited(char('"'), tree_index, char('"'))
quoted_tree_index(i) ==
    LET open == char("\"", i)
        r == IF open.ok THEN tree_index(open.rest) ELSE open
        close == IF r.ok THEN char("\"", r.rest) ELSE r
    IN IF close.ok THEN POk(close.rest, r.out) ELSE close

\* cut(alt((tree_index, delimited(...))))
branch(i) ==
    LET r == tree_index(i)
        q == IF r.ok THEN r ELSE quoted_tree_index(i)
    IN IF q.ok THEN q ELSE PFailure

\* preceded(sp or sp1, parser k of the tuple)
element(k, i) ==
    LET s == IF k = 1 THEN sp(i) ELSE sp1(i)
    IN IF ~s.ok THEN s
       ELSE IF k = 1 THEN parse_signed_digits(s.rest)
       ELSE IF k = 2 THEN parse_question_ident(s.rest)
       ELSE branch(s.rest)

\* tuple((..)): the branch `no` after the outputs before it
tuple_no(i, id, question_name, yes) ==
    once({IF r.ok
          THEN POk(r.rest, [id |-> id, question_name |-> question_name,
                            yes |-> yes, no |-> r.out])
          ELSE r : r \in {element(4, i)}})

tuple_yes(i, id, question_name) ==
    once({IF r.ok THEN tuple_no(r.rest, id, question_name, r.out) ELSE r :
              r \in {element(3, i)}})

tuple_question(i, id) ==
    once({IF r.ok THEN tuple_yes(r.rest, id, r.out) ELSE r :
              r \in {element(2, i)}})

parse_node(i) ==
    once({IF r.ok THEN tuple_question(r.rest, r.out) ELSE r :
              r \in {element(1, i)}})

\* the branch targets of the lines: integer literals, names, text that is
\* neither
Targets ==
    {<<"-", "1">>, <<"1", "2">>, <<"0">>,
     <<"a", "5">>, <<"a", "_", "1", "2">>, <<"d", "1", "_", "2">>,
     <<"a", "1", "b">>, <<"a", "b">>, <<"_">>,
     <<"1", "_", "5">>, <<"2", "a">>}

Quote(t, quoted) == IF quoted THEN <<"\"">> \o t \o <<"\"">> ELSE t

Lines ==
    [id : {<<"0">>, <<"-", "1">>},
     question : {<<"q", "<", "=", "1">>},
     yes : Targets, yes_quoted : BOOLEAN,
     no : Targets, no_quoted : BOOLEAN,
     tail : {<<>>, <<" ", "\n", "}">>}]

Written(l) ==
    <<" ">> \o l.id \o <<" ">> \o l.question \o <<" ", " ">>
        \o Quote(l.yes, l.yes_quoted) \o <<" ">> \o Quote(l.no, l.no_quoted)
        \o l.tail

InitParse ==
    /\ tp_pc = "input"
    /\ tp_line \in Lines
    /\ tp_input = Written(tp_line)
    /\ tp_result = None
    /\ AllIdleBut("tp")

ParseNode ==
    /\ tp_pc = "input"
    /\ tp_pc' = "done"
    /\ tp_result' = Some(parse_node(tp_input))
    /\ UNCHANGED <<tp_line, tp_input>>
    /\ UNCHANGED exceptTp

NextParse == ParseNode

SpecParse == InitParse /\ [][NextParse]_vars

\* what a branch target is: an integer literal, a name, and the name's
\* final run of digits
IsLiteral(t) ==
    \/ t # <<>> /\ AllDigits(t)
    \/ Len(t) >= 2 /\ t[1] = "-" /\ AllDigits(From(t, 1))
IsName(t) == t # <<>> /\ ~IsLiteral(t) /\ \A k \in 1..Len(t) : t[k] \in IdentifierChars
FinalDigits(t) ==
    LET n == CHOOSE m \in 0..Len(t) :
                 /\ \A k \in (Len(t) - m + 1)..Len(t) : t[k] \in Digits
                 /\ m < Len(t) => t[Len(t) - m] \notin Digits
    IN SubSeq(t, Len(t) - n + 1, Len(t))
Rejected(t) == IsName(t) /\ FinalDigits(t) = <<>>
Classified(t) ==
    IF IsLiteral(t) THEN TreeIndexNode(parse_to(t))
    ELSE TreeIndexPdf(DigitsValue(FinalDigits(t)))

\* C14: parse_node classifies each branch target of the line `id question
\* yes no`, quoted or not: an integer literal is the node reference with
\* that id, a name is the PDF reference with the number of the name's final
\* run of digits, and the line is rejected exactly when a name does not end
\* in a digit.
C14_Classifies ==
    tp_pc = "done" =>
        IF Rejected(tp_line.yes) \/ Rejected(tp_line.no)
        THEN ~tp_result.v.ok
        ELSE /\ tp_result.v.ok
             /\ tp_result.v.out.yes = Classified(tp_line.yes)
             /\ tp_result.v.out.no = Classified(tp_line.no)

\* the same on the lines whose names do not start with a digit
StartsWithDigit(t) == IsName(t) /\ t[1] \in Digits
C14_NamesFromLetter ==
    (tp_pc = "done" /\ ~StartsWithDigit(tp_line.yes)
                    /\ ~StartsWithDigit(tp_line.no)) => C14_Classifies

\* ------------------------------------------------------------------------
\* GStreamSet::create (gstream.rs), the frame loop.  Streams and frames are
\* numbered from 0 as in the code; the sequences of the model hold stream s
\* at s + 1 and frame i at i + 1.
\* ------------------------------------------------------------------------

HTS_NODATA == [nodata |-> TRUE, stream |-> 0, row |-> 0, col |-> 0]

\* the entry of row `row`, column `col` of the parameter matrix of stream s
Entry(s, row, col) == [nodata |-> FALSE, stream |-> s, row |-> row, col |-> col]

is_msd(pss, s) == pss.is_msd[s + 1]
get_msd_flag(pss, s, i) == pss.msd_flag[s + 1][i + 1]
get_vector_length(pss, s) == pss.vector_length[s + 1]

\* the rows of the parameter matrix of stream s
Rows(pss, s) == pss.rows[s + 1]

\* the closure's test: stream s has no data at frame i
is_nodata(pss, s, i) == is_msd(pss, s) /\ ~get_msd_flag(pss, s, i)

\* the row counter of every stream moves at every frame
advances_always(pss, j, i) == TRUE

\* the loop's test: the row counter of stream j moves after frame i
advances(pss, j, i) == ~is_msd(pss, j) \/ get_msd_flag(pss, j, i)

\* the closure get_parameter at frame i
create_get_parameter(pss, index, i, s, col) ==
    IF is_nodata(pss, s, i) THEN HTS_NODATA
    ELSE Entry(s, index[s + 1], col)

\* the rows get_parameter reads for stream s at frame i
rows_read(pss, index, i, s) ==
    IF is_nodata(pss, s, i) \/ get_vector_length(pss, s) = 0 THEN {}
    ELSE {<<s, index[s + 1]>>}

\* the vector of stream s at frame i
vector_of(pss, index, i, s) ==
    [col \in 1..get_vector_length(pss, s) |->
        create_get_parameter(pss, index, i, s, col - 1)]

\* the frames of stream s that have data
DataFrames(msd, flags, s, T) ==
    {i \in 0..(T - 1) : ~msd[s + 1] \/ flags[s + 1][i + 1]}

\* a parameter stream set create accepts: two or three streams, lf0 of
\* length 1, a low-pass filter of odd length; the matrix of a stream has a
\* row per frame with data
PStreamSet(n, T, msd, flags) ==
    [nstream |-> n,
     total_frame |-> T,
     vector_length |-> IF n = 2 THEN <<2, 1>> ELSE <<2, 1, 1>>,
     is_msd |-> msd,
     msd_flag |-> flags,
     rows |-> [s \in 1..n |-> Cardinality(DataFrames(msd, flags, s - 1, T))]]

\* create up to the loop: frame_skipped_index = vec![0; nstream]; the flags
\* of a stream that is not MSD are not read
InitCreate ==
    /\ gs_pc = "loop"
    /\ \E n \in {2, 3}, T \in 0..MaxGFrames :
           \E msd \in [1..n -> BOOLEAN], flags \in [1..n -> [1..T -> BOOLEAN]] :
               /\ \A s \in 1..n : ~msd[s] => \A i \in 1..T : flags[s][i]
               /\ gs_pss = PStreamSet(n, T, msd, flags)
    /\ gs_i = 0
    /\ gs_index = [s \in 1..gs_pss.nstream |-> 0]
    /\ gs_passed = <<>>
    /\ gs_reads = {}
    /\ AllIdleBut("gs")

\* one turn of the loop: the values for the vocoder, the call, the counters
CreateFrame ==
    /\ gs_pc = "loop"
    /\ gs_i < gs_pss.total_frame
    /\ LET reads == UNION {rows_read(gs_pss, gs_index, gs_i, s) :
                              s \in 0..(gs_pss.nstream - 1)}
       IN IF \E r \in reads : r[2] >= Rows(gs_pss, r[1])
          THEN /\ gs_pc' = "panic"
               /\ gs_reads' = gs_reads \cup reads
               /\ UNCHANGED <<gs_i, gs_index, gs_passed>>
          ELSE /\ gs_pc' = "loop"
               /\ gs_reads' = gs_reads \cup reads
               /\ gs_passed' = Append(gs_passed,
                      [lf0 |-> create_get_parameter(gs_pss, gs_index, gs_i, 1, 0),
                       spectrum |-> vector_of(gs_pss, gs_index, gs_i, 0),
                       lpf |-> IF gs_pss.nstream >= 3
                               THEN vector_of(gs_pss, gs_index, gs_i, 2)
                               ELSE <<>>])
               /\ gs_index' = [s \in 1..gs_pss.nstream |->
                                  IF advances(gs_pss, s - 1, gs_i)
                                  THEN gs_index[s] + 1 ELSE gs_index[s]]
               /\ gs_i' = gs_i + 1
    /\ UNCHANGED gs_pss
    /\ UNCHANGED exceptGs

\* the loop is over: GStreamSet { speech }
CreateReturn ==
    /\ gs_pc = "loop"
    /\ gs_i = gs_pss.total_frame
    /\ gs_pc' = "done"
    /\ UNCHANGED <<gs_pss, gs_i, gs_index, gs_passed, gs_reads>>
    /\ UNCHANGED exceptGs

NextCreate == CreateFrame \/ CreateReturn

SpecCreate == InitCreate /\ [][NextCreate]_vars

\* the frames of stream s before frame i that had data
Earlier(s, i) == {e \in 0..(i - 1) : ~is_nodata(gs_pss, s, e)}

\* what the claim says the vocoder is given for stream s, column col, frame i
Expected(s, col, i) ==
    IF is_msd(gs_pss, s) /\ ~get_msd_flag(gs_pss, s, i) THEN HTS_NODATA
    ELSE Entry(s, Cardinality(Earlier(s, i)), col)

\* C20: for every stream and frame the vocoder is given NODATA exactly when
\* the stream is MSD and its flag at the frame is false, and else row k of
\* the stream's matrix, k the number of earlier frames of the stream with
\* data; the row counter of a stream never exceeds its number of frames with
\* data, no row outside a matrix is read (none at all of a stream whose mask
\* drops every frame), and the lf0 values that are not NODATA are as many as
\* the flags that are true.
C20_Rows ==
    /\ gs_pc # "panic"
    /\ gs_pc # "off" =>
        /\ Len(gs_passed) = gs_i
        /\ \A i \in 0..(gs_i - 1) :
               /\ gs_passed[i + 1].lf0 = Expected(1, 0, i)
               /\ gs_passed[i + 1].spectrum =
                      [col \in 1..get_vector_length(gs_pss, 0) |->
                          Expected(0, col - 1, i)]
               /\ gs_passed[i + 1].lpf =
                      IF gs_pss.nstream >= 3
                      THEN [col \in 1..get_vector_length(gs_pss, 2) |->
                               Expected(2, col - 1, i)]
                      ELSE <<>>
        /\ \A s \in 0..(gs_pss.nstream - 1) :
               /\ gs_index[s + 1] = Cardinality(Earlier(s, gs_i))
               /\ gs_index[s + 1] <= Rows(gs_pss, s)
               /\ \A r \in gs_reads : r[1] = s => r[2] < Rows(gs_pss, s)
        /\ Cardinality({i \in 0..(gs_i - 1) : ~gs_passed[i + 1].lf0.nodata}) =
               Cardinality({i \in 0..(gs_i - 1) :
                               ~is_msd(gs_pss, 1) \/ get_msd_flag(gs_pss, 1, i)})

\* create returned for three streams, lf0 with frames of both kinds and a
\* voiced frame after an unvoiced one, and an MSD stream without any data
C20_Witness ==
    /\ gs_pc = "done"
    /\ gs_pss.nstream = 3
    /\ \E i, j \in 0..(gs_i - 1) :
           /\ i < j
           /\ gs_passed[i + 1].lf0 = HTS_NODATA
           /\ gs_passed[j + 1].lf0 = Entry(1, j - 1, 0)
           /\ j >= 2
    /\ is_msd(gs_pss, 2) /\ Rows(gs_pss, 2) = 0

\* C22: after load_model has succeeded, and after any setter calls that
\* follow it, sampling_frequency and fperiod are at least 1, alpha, beta and
\* every msd threshold lie in [0, 1], every gv weight is at least 0, speed
\* is at least 1e-6, and msd_threshold and gv_weight have num_streams
\* entries each.
C22_LegalCondition ==
    cd_pc = "loaded" =>
        /\ cd_cond.sampling_frequency >= 1
        /\ cd_cond.fperiod >= 1
        /\ InRange(cd_cond.alpha, 0, One)
        /\ InRange(cd_cond.beta, 0, One)
        /\ Len(cd_cond.msd_threshold) = cd_voices.num_streams
        /\ Len(cd_cond.gv_weight) = cd_voices.num_streams
        /\ \A k \in 1..Len(cd_cond.msd_threshold) :
               InRange(cd_cond.msd_threshold[k], 0, One)
        /\ \A k \in 1..Len(cd_cond.gv_weight) :
               ~cd_cond.gv_weight[k].nan /\ cd_cond.gv_weight[k].v >= 0
        /\ ~cd_cond.speed.nan /\ cd_cond.speed.v >= SpeedMin

\* C24: the PDF that get_parameter returns is read from the table of the
\* state of the tree it walked, pdf[state - 2], also when a state has
\* several trees or the trees are not listed by ascending state from 2 on.
C24_TableOfState ==
    (lk_pc = "done" /\ lk_result.kind = "ok") =>
        lk_result.table = Nth(lk_model.trees, lk_tree).state - FirstState
\* ------------------------------------------------------------------------
\* Tree files: parse_tree (model/parser/tree.rs) and convert_tree
\* (model/parser/convert.rs)
\* ------------------------------------------------------------------------

MaxTNodes == 2
MaxTPdf == 2

PATTERN_WILDCARD == {"*", "?"}
JPCOMMON_SYMBOLS ==
    {"!", "#", "%", "&", "+", "-", "/", ":", "=", "@", "^", "_", "|"}

PatternChars == Letters \cup Digits \cup PATTERN_WILDCARD \cup JPCOMMON_SYMBOLS
parse_pattern(i) == parse_template1(i, PatternChars)

\* the ASCII characters of the files other than '\n'
AsciiChars ==
    PatternChars \cup QuestionChars \cup {" ", "{", "}", "[", "]", ","}
parse_ascii_to_string(s) == parse_template(s, AsciiChars).out

\* `n as usize` of an isize n: the usize v when n >= 0, and 2^64 + v, the
\* wrap-around, when n < 0
as_usize(n) == [wrapped |-> n < 0, v |-> n]

ParsedTree(pattern, state, nodes) ==
    [pattern |-> pattern, state |-> state, nodes |-> nodes]

\* separated_list0(char(','), pattern): the list after parse_pattern has
\* answered r for the element that follows rest
RECURSIVE patterns_more(_, _)
RECURSIVE pattern_parsed(_, _, _)
pattern_parsed(i, res, r) ==
    IF r.ok
    THEN patterns_more(r.rest, Append(res, parse_ascii_to_string(r.out)))
    ELSE POk(i, res)

patterns_more(i, res) ==
    IF ~char(",", i).ok THEN POk(i, res)
    ELSE once({pattern_parsed(i, res, r) :
                   r \in {parse_pattern(char(",", i).rest)}})

pattern_list(i) == pattern_parsed(i, <<>>, parse_pattern(i))

\* separated_list0(sp1, parse_node): the list after parse_node has answered
\* r for the element that follows rest; a Failure of parse_node (its cut)
\* ends the list with the failure, an Error ends it before the separator
RECURSIVE nodes_more(_, _)
RECURSIVE node_parsed(_, _, _)
node_parsed(i, res, r) ==
    IF r.ok THEN nodes_more(r.rest, Append(res, r.out))
    ELSE IF r.failure THEN PFailure
    ELSE POk(i, res)

nodes_more(i, res) ==
    IF ~sp1(i).ok THEN POk(i, res)
    ELSE once({node_parsed(i, res, r) : r \in {parse_node(sp1(i).rest)}})

node_list(i) == once({node_parsed(i, <<>>, r) : r \in {parse_node(i)}})

\* delimited(open, list, close) once open has matched
closed(l, close) ==
    IF ~l.ok THEN l
    ELSE IF char(close, l.rest).ok THEN POk(char(close, l.rest).rest, l.out)
    ELSE PError

\* preceded(sp, delimited(char('{'), separated_list0(..), char('}')))
tree_patterns(i) ==
    IF ~char("{", sp(i).rest).ok THEN PError
    ELSE closed(pattern_list(char("{", sp(i).rest).rest), "}")

\* preceded(sp, delimited(char('['), parse_signed_digits, char(']')))
tree_state(i) ==
    IF ~char("[", sp(i).rest).ok THEN PError
    ELSE closed(parse_signed_digits(char("[", sp(i).rest).rest), "]")

\* the node list with the sp before its closing brace
nodes_sp(l) == IF l.ok THEN POk(sp(l.rest).rest, l.out) ELSE l

\* preceded(sp, delimited(pair(char('{'), sp), separated_list0(..),
\*                        pair(sp, char('}'))))
tree_nodes(i) ==
    IF ~char("{", sp(i).rest).ok THEN PError
    ELSE once({closed(nodes_sp(l), "}") :
                   l \in {node_list(sp(char("{", sp(i).rest).rest).rest)}})

tree_of(pattern, state, n) ==
    IF n.ok THEN POk(n.rest, ParsedTree(pattern, as_usize(state), n.out))
    ELSE n

then_nodes(pattern, s) ==
    IF s.ok
    THEN once({tree_of(pattern, s.out, n) : n \in {tree_nodes(s.rest)}})
    ELSE s

then_state(p) ==
    IF p.ok THEN once({then_nodes(p.out, s) : s \in {tree_state(p.rest)}})
    ELSE p

parse_tree(i) == once({then_state(p) : p \in {tree_patterns(i)}})

\* question_lut: the questions of the model file by name
QuestionNames == {<<"q", "1">>, <<"q", "2">>}
question_lut == [q \in QuestionNames |-> <<q \o <<"*">> >>]

\* node_lut.get(&id): BTreeMap::from_iter keeps the last position of an id
node_lut_get(nodes, id) ==
    IF \E k \in 1..Len(nodes) : nodes[k].id = id
    THEN Some((CHOOSE k \in 1..Len(nodes) :
                  /\ nodes[k].id = id
                  /\ \A j \in 1..Len(nodes) : nodes[j].id = id => j <= k) - 1)
    ELSE None

pdf_of(t) == IF t.kind = "Pdf" THEN <<t.index>> ELSE <<>>

\* pdfs before the sort: the PDF targets of yes, then no, node after node
RECURSIVE pushed(_)
pushed(nodes) ==
    IF nodes = <<>> THEN <<>>
    ELSE pushed(SubSeq(nodes, 1, Len(nodes) - 1))
             \o pdf_of(nodes[Len(nodes)].yes) \o pdf_of(nodes[Len(nodes)].no)

occurrences(s, v) == Cardinality({k \in 1..Len(s) : s[k] = v})

sort_unstable(s) ==
    CHOOSE t \in [1..Len(s) -> {s[k] : k \in 1..Len(s)}] :
        /\ \A k \in 1..(Len(s) - 1) : t[k] <= t[k + 1]
        /\ \A k \in 1..Len(s) : occurrences(t, s[k]) = occurrences(s, s[k])

\* the positions pdfs.binary_search(&id) may answer with: with equal
\* elements any of the matches
binary_search(pdfs, id) == {k \in 0..(Len(pdfs) - 1) : Nth(pdfs, k) = id}

\* yes_id and no_id before the unwrap
target_ids(nodes, pdfs, t) ==
    IF t.kind = "Node" THEN {node_lut_get(nodes, t.index)}
    ELSE IF binary_search(pdfs, t.index) = {} THEN {None}
    ELSE {Some(k + Len(nodes)) : k \in binary_search(pdfs, t.index)}

OptionIndexes(n) == {None} \cup {Some(k) : k \in 0..(n - 1)}

VoiceTree(nodes, state) == [nodes |-> nodes, state |-> state]

\* the early return of convert_tree
single(t) == Len(t.nodes) = 1 /\ t.nodes[1].yes = t.nodes[1].no

\* an unwrap of None: a target that is no node, a question that is not in
\* question_lut
unwraps_none(t, yes_id, no_id) ==
    \E k \in 1..Len(t.nodes) :
        \/ ~yes_id[k].some
        \/ ~no_id[k].some
        \/ t.nodes[k].question_name \notin DOMAIN question_lut

converted(t, pdfs, yes_id, no_id) ==
    VoiceTree([k \in 1..Len(t.nodes) |->
                   Node(question_lut[t.nodes[k].question_name],
                        yes_id[k].v, no_id[k].v)]
                  \o [k \in 1..Len(pdfs) |-> Leaf(pdfs[k])],
              t.state)

\* the input files
Heads ==
    {<<"{", "*", "}">>,
     <<"\n", "{", "*", "-", "a", "+", "*", ",", "*", "=", "b", "}">>,
     <<"*">>}

StateFields ==
    {<<"[", "2", "]">>, <<"[", "3", "]">>, <<"[", "1", "]">>,
     <<"[", "0", "]">>, <<"[", "-", "1", "]">>, <<"[", "-", "2", "]">>,
     <<" ", "[", "1", "2", "]">>, <<"[", "]">>}

NodeLine(id, question, yes, no) ==
    <<" ">> \o id \o <<" ">> \o question \o <<" ">> \o yes \o <<" ">> \o no

PdfName(n) == <<"\"", "a", "_", n, "\"">>

Bodies ==
    {<<"\n", "{", "\n">>
         \o NodeLine(<<"0">>, <<"q", "1">>, PdfName("1"), PdfName("1"))
         \o <<"\n", "}">>,
     <<"{">>
         \o NodeLine(<<"0">>, <<"q", "1">>, PdfName("2"), PdfName("1"))
         \o <<"}">>,
     <<"\n", "{", "\n">>
         \o NodeLine(<<"0">>, <<"q", "1">>, <<"-", "1">>, PdfName("2"))
         \o <<"\n">>
         \o NodeLine(<<"-", "1">>, <<"q", "2">>, PdfName("1"), PdfName("2"))
         \o <<"\n", "}">>,
     <<"{">>
         \o NodeLine(<<"0">>, <<"q", "1">>, <<"-", "1">>, PdfName("1"))
         \o <<"\n", "}">>,
     <<"{">>
         \o NodeLine(<<"0">>, <<"q", "1">>, <<"0">>, <<"0">>)
         \o <<"\n", "}">>,
     <<"{">>
         \o NodeLine(<<"0">>, <<"q", "1">>, <<"x">>, PdfName("1"))
         \o <<"\n", "}">>,
     <<"{", "\n", "}">>,
     <<"{">>
         \o NodeLine(<<"0">>, <<"q", "1">>, PdfName("2"), PdfName("1"))}

InitTree ==
    /\ tr_pc = "input"
    /\ \E head \in Heads, state \in StateFields, body \in Bodies :
           tr_input = head \o state \o body
    /\ tr_parsed = None
    /\ tr_tree = None
    /\ AllIdleBut("tr")

\* Ok((rest, tree)) as the tree, an Err as None
parsed(r) == IF r.ok THEN Some(r.out) ELSE None

\* parse_tree on the text of one tree
ParseTree ==
    /\ tr_pc = "input"
    /\ tr_parsed' = parsed(parse_tree(tr_input))
    /\ tr_pc' = IF tr_parsed'.some THEN "parsed" ELSE "rejected"
    /\ UNCHANGED <<tr_input, tr_tree>>
    /\ UNCHANGED exceptTr

\* convert_tree(orig_tree, question_lut)
ConvertTree ==
    /\ tr_pc = "parsed"
    /\ IF single(tr_parsed.v)
       THEN IF tr_parsed.v.nodes[1].yes.kind = "Pdf"
            THEN /\ tr_pc' = "converted"
                 /\ tr_tree' = Some(VoiceTree(
                        <<Leaf(tr_parsed.v.nodes[1].yes.index)>>,
                        tr_parsed.v.state))
            ELSE /\ tr_pc' = "panic"
                 /\ tr_tree' = None
       ELSE \E yes_id, no_id \in [1..Len(tr_parsed.v.nodes) ->
                    OptionIndexes(3 * Len(tr_parsed.v.nodes))] :
                /\ \A k \in 1..Len(tr_parsed.v.nodes) :
                       /\ yes_id[k] \in target_ids(tr_parsed.v.nodes,
                              sort_unstable(pushed(tr_parsed.v.nodes)),
                              tr_parsed.v.nodes[k].yes)
                       /\ no_id[k] \in target_ids(tr_parsed.v.nodes,
                              sort_unstable(pushed(tr_parsed.v.nodes)),
                              tr_parsed.v.nodes[k].no)
                /\ IF unwraps_none(tr_parsed.v, yes_id, no_id)
                   THEN /\ tr_pc' = "panic"
                        /\ tr_tree' = None
                   ELSE /\ tr_pc' = "converted"
                        /\ tr_tree' = Some(converted(tr_parsed.v,
                               sort_unstable(pushed(tr_parsed.v.nodes)),
                               yes_id, no_id))
    /\ UNCHANGED <<tr_input, tr_parsed>>
    /\ UNCHANGED exceptTr

NextTree == ParseTree \/ ConvertTree

SpecTree == InitTree /\ [][NextTree]_vars

\* the parsed trees handed to convert_tree: node k of the file has the id
\* 1 - k (0, -1, ..), a target names one of these ids, the id after the last
\* one (no node has it) or a PDF
TreeTargets(n) ==
    {TreeIndexNode(id) : id \in (0 - n)..0}
        \cup {TreeIndexPdf(p) : p \in 1..MaxTPdf}

ParsedNode(id, question_name, yes, no) ==
    [id |-> id, question_name |-> question_name, yes |-> yes, no |-> no]

InitConvert ==
    /\ tr_pc = "parsed"
    /\ tr_input = <<>>
    /\ \E n \in 0..MaxTNodes, state \in {2, 3} :
           \E q \in [1..n -> QuestionNames],
              yes \in [1..n -> TreeTargets(n)],
              no \in [1..n -> TreeTargets(n)] :
               tr_parsed = Some(ParsedTree(<<>>, as_usize(state),
                   [k \in 1..n |-> ParsedNode(1 - k, q[k], yes[k], no[k])]))
    /\ tr_tree = None
    /\ AllIdleBut("tr")

SpecConvert == InitConvert /\ [][ConvertTree]_vars

\* every branch target names the id of a node of the tree or a PDF
linked(t) ==
    \A k \in 1..Len(t.nodes) :
        /\ t.nodes[k].yes.kind = "Node" =>
               \E j \in 1..Len(t.nodes) : t.nodes[j].id = t.nodes[k].yes.index
        /\ t.nodes[k].no.kind = "Node" =>
               \E j \in 1..Len(t.nodes) : t.nodes[j].id = t.nodes[k].no.index

\* the PDF the id-linked tree reaches from the node at position i when the
\* questions are answered by answers (None when it reaches none: it cycles)
RECURSIVE linked_walk(_, _, _, _)
linked_walk(nodes, i, answers, fuel) ==
    IF fuel = 0 \/ i >= Len(nodes) THEN None
    ELSE once({IF t.kind = "Pdf" THEN Some(t.index)
               ELSE linked_walk(nodes,
                        (CHOOSE j \in 1..Len(nodes) : nodes[j].id = t.index) - 1,
                        answers, fuel - 1) :
               t \in {IF answers[Nth(nodes, i).question_name]
                      THEN Nth(nodes, i).yes ELSE Nth(nodes, i).no}})

\* the answer to the question of a branch node of the converted tree
answer_of(answers, question) ==
    answers[CHOOSE q \in QuestionNames : question_lut[q] = question]

\* the pdf_index of the leaf the index-based tree reaches from position i
RECURSIVE indexed_walk(_, _, _, _)
indexed_walk(nodes, i, answers, fuel) ==
    IF fuel = 0 \/ i >= Len(nodes) THEN None
    ELSE IF Nth(nodes, i).leaf THEN Some(Nth(nodes, i).pdf_index)
    ELSE indexed_walk(nodes,
             IF answer_of(answers, Nth(nodes, i).patterns)
             THEN Nth(nodes, i).yes ELSE Nth(nodes, i).no,
             answers, fuel - 1)

\* branch nodes in file order at 0..n-1, then the leaves in ascending pdf
\* index, every yes and no a position of the list
index_based(t, c) ==
    /\ Len(c.nodes) >= Len(t.nodes)
    /\ \A k \in 1..Len(t.nodes) :
           /\ ~c.nodes[k].leaf
           /\ c.nodes[k].patterns = question_lut[t.nodes[k].question_name]
           /\ c.nodes[k].yes \in 0..(Len(c.nodes) - 1)
           /\ c.nodes[k].no \in 0..(Len(c.nodes) - 1)
    /\ \A k \in (Len(t.nodes) + 1)..Len(c.nodes) :
           /\ c.nodes[k].leaf
           /\ k < Len(c.nodes) => c.nodes[k].pdf_index <= c.nodes[k + 1].pdf_index

same_decision(t, c) ==
    \A answers \in [QuestionNames -> BOOLEAN] :
        indexed_walk(c.nodes, 0, answers, Len(c.nodes) + 1)
            = linked_walk(t.nodes, 0, answers, Len(t.nodes) + 1)

\* C23: for every parsed tree whose branch targets name a node id of the
\* tree or a PDF, convert_tree returns an index-based tree (branch nodes in
\* file order, then leaves in ascending pdf index, valid yes/no positions)
\* that reaches, under every assignment of answers, the PDF the id-linked
\* tree reaches; one node whose yes and no name the same PDF becomes a
\* single leaf
C23_SameDecision ==
    (tr_pc \in {"converted", "panic"} /\ linked(tr_parsed.v)) =>
        /\ tr_pc = "converted"
        /\ tr_tree.v.state = tr_parsed.v.state
        /\ IF single(tr_parsed.v)
           THEN tr_tree.v.nodes = <<Leaf(tr_parsed.v.nodes[1].yes.index)>>
           ELSE index_based(tr_parsed.v, tr_tree.v)
        /\ same_decision(tr_parsed.v, tr_tree.v)

\* C21: every tree that parse_tree and convert_tree produce has a state of at
\* least 2 that is the number written in the [state] field, never 0, 1 or the
\* wrap-around of a negative number, so that pdf[state - 2] is defined
C21_StateAtLeastTwo ==
    /\ tr_parsed.some =>
           /\ ~tr_parsed.v.state.wrapped
           /\ tr_parsed.v.state.v >= 2
    /\ tr_tree.some =>
           /\ ~tr_tree.v.state.wrapped
           /\ tr_tree.v.state.v >= 2

====
